---- MODULE Spec2Model ----
(***************************************************************************)
(* Intrusion-detection core of the repository: the log-line parsers of     *)
(* models/preprocess.py and models/db_preprocess.py, the IDSManager of     *)
(* cms/ids_manager.py (signature rules, classifier adapter, alert list)    *)
(* and the /api/ids handlers of enhanced_api.py that drive it.             *)
(*                                                                         *)
(* Log lines are TLA+ strings handled character by character, as Python    *)
(* handles them: Len, SubSeq and \o are the only string primitives used.   *)
(* Confidences are integers in units of 1/10000 (round(confidence, 4)).    *)
(***************************************************************************)
EXTENDS Integers, Sequences, FiniteSets, TLC

(***************************************************************************)
(* Python string primitives                                                *)
(***************************************************************************)
\* Python None; a record, so that it compares with the records it stands in for
None == [none |-> TRUE]

Char(s, i) == SubSeq(s, i, i)

IsSpace(c) == c \in {" ", "\t", "\n"}

IsDigit(c) == c \in {"0", "1", "2", "3", "4", "5", "6", "7", "8", "9"}

UpperChars == "ABCDEFGHIJKLMNOPQRSTUVWXYZ"

LowerChars == "abcdefghijklmnopqrstuvwxyz"

\* str.lower() on one character
LowerChar(c) ==
    IF \E k \in 1..26 : Char(UpperChars, k) = c
    THEN Char(LowerChars, CHOOSE k \in 1..26 : Char(UpperChars, k) = c)
    ELSE c

\* str.upper() on one character
UpperChar(c) ==
    IF \E k \in 1..26 : Char(LowerChars, k) = c
    THEN Char(UpperChars, CHOOSE k \in 1..26 : Char(LowerChars, k) = c)
    ELSE c

RECURSIVE lower(_)
lower(s) == IF Len(s) = 0 THEN "" ELSE LowerChar(Char(s, 1)) \o lower(SubSeq(s, 2, Len(s)))

RECURSIVE upper(_)
upper(s) == IF Len(s) = 0 THEN "" ELSE UpperChar(Char(s, 1)) \o upper(SubSeq(s, 2, Len(s)))

\* p in s
Contains(s, p) == \E i \in 1..(Len(s) - Len(p) + 1) : SubSeq(s, i, i + Len(p) - 1) = p

\* any(p in s for p in patterns)
ContainsAny(s, patterns) == \E p \in patterns : Contains(s, p)

\* s[i:i+len(p)] == p
StartsAt(s, i, p) == i >= 1 /\ i + Len(p) - 1 <= Len(s) /\ SubSeq(s, i, i + Len(p) - 1) = p

\* str.strip()
strip(s) ==
    IF \A i \in 1..Len(s) : IsSpace(Char(s, i)) THEN ""
    ELSE LET a == CHOOSE i \in 1..Len(s) :
                      /\ ~IsSpace(Char(s, i))
                      /\ \A j \in 1..(i - 1) : IsSpace(Char(s, j))
             b == CHOOSE i \in 1..Len(s) :
                      /\ ~IsSpace(Char(s, i))
                      /\ \A j \in (i + 1)..Len(s) : IsSpace(Char(s, j))
         IN SubSeq(s, a, b)

\* end of the maximal run of characters satisfying the class, starting at p
\* (p - 1 when the run is empty)
RunEnd(s, p, InClass(_)) ==
    IF p > Len(s) \/ ~InClass(Char(s, p)) THEN p - 1
    ELSE CHOOSE e \in p..Len(s) :
             /\ \A j \in p..e : InClass(Char(s, j))
             /\ (e = Len(s) \/ ~InClass(Char(s, e + 1)))

NonSpace(c) == ~IsSpace(c)

\* Body applied to the value of e, which is computed once
Bind(e, Body(_)) == CHOOSE r \in {Body(v) : v \in {e}} : TRUE

\* str.split(): the whitespace-separated words of s, in order
RECURSIVE split(_)
split(s) ==
    Bind(strip(s), LAMBDA t :
        IF t = "" THEN << >>
        ELSE Bind(RunEnd(t, 1, NonSpace), LAMBDA e :
                 <<SubSeq(t, 1, e)>> \o split(SubSeq(t, e + 1, Len(t)))))

\* s[:n]
Truncate(s, n) == IF Len(s) <= n THEN s ELSE SubSeq(s, 1, n)

\* int(s) for a string of decimal digits
DigitVal(c) == CHOOSE d \in 0..9 : Char("0123456789", d + 1) = c

RECURSIVE int(_)
int(s) == IF Len(s) = 0 THEN 0
          ELSE 10 * int(SubSeq(s, 1, Len(s) - 1)) + DigitVal(Char(s, Len(s)))

Min(S) == CHOOSE m \in S : \A n \in S : m <= n

(***************************************************************************)
(* models/preprocess.py: LOG_PATTERN and parse_log_line                    *)
(* The pattern is, anchored at the start of the line: three non-space     *)
(* words, a bracketed timestamp, a quoted request, two numbers, a quoted   *)
(* referer, a quoted user agent, then anything.                            *)
(* The three \S+ groups and the two \d+ groups are maximal runs that must  *)
(* be followed by the literal that comes next; every lazy group ends at    *)
(* the first position where its closing literal stands and the rest of the *)
(* pattern still matches.                                                  *)
(***************************************************************************)
\* closing quote of group 9 (user agent), which starts at p
Q9(line, p) == {q \in p..Len(line) : Char(line, q) = "\""}

\* closing `" "` of group 8 (referer), which starts at p
Q8(line, p) == {q \in p..Len(line) : StartsAt(line, q, "\" \"") /\ Q9(line, q + 3) # {}}

\* (\d+) (\d+) " starting at p: the start of group 8, or 0 when it does not match
NumsEnd(line, p) ==
    Bind(RunEnd(line, p, IsDigit), LAMBDA e6 :
    Bind(RunEnd(line, e6 + 2, IsDigit), LAMBDA e7 :
        IF /\ e6 >= p
           /\ StartsAt(line, e6 + 1, " ")
           /\ e7 >= e6 + 2
           /\ StartsAt(line, e7 + 1, " \"")
        THEN e7 + 3 ELSE 0))

\* closing `" ` of group 5 (request), which starts at p
Q5(line, p) == {q \in p..Len(line) :
                   /\ StartsAt(line, q, "\" ")
                   /\ Bind(NumsEnd(line, q + 2), LAMBDA p8 : p8 # 0 /\ Q8(line, p8) # {})}

\* closing `] "` of group 4 (timestamp), which starts at p
Q4(line, p) == {q \in p..Len(line) : StartsAt(line, q, "] \"") /\ Q5(line, q + 3) # {}}

\* LOG_PATTERN.match(line): the groups, or None
LOG_PATTERN(line) ==
    Bind(RunEnd(line, 1, NonSpace), LAMBDA e1 :
    Bind(RunEnd(line, e1 + 2, NonSpace), LAMBDA e2 :
    Bind(RunEnd(line, e2 + 2, NonSpace), LAMBDA e3 :
    Bind(Q4(line, e3 + 3), LAMBDA ends4 :
        IF /\ e1 >= 1 /\ StartsAt(line, e1 + 1, " ")
           /\ e2 >= e1 + 2 /\ StartsAt(line, e2 + 1, " ")
           /\ e3 >= e2 + 2 /\ StartsAt(line, e3 + 1, " [")
           /\ ends4 # {}
        THEN Bind(Min(ends4), LAMBDA q4 :
             Bind(Min(Q5(line, q4 + 3)), LAMBDA q5 :
             Bind(RunEnd(line, q5 + 2, IsDigit), LAMBDA e6 :
             Bind(RunEnd(line, e6 + 2, IsDigit), LAMBDA e7 :
             Bind(Min(Q8(line, e7 + 3)), LAMBDA q8 :
             Bind(Min(Q9(line, q8 + 3)), LAMBDA q9 :
                 [ip        |-> SubSeq(line, 1, e1),
                  ident     |-> SubSeq(line, e1 + 2, e2),
                  auth      |-> SubSeq(line, e2 + 2, e3),
                  timestamp |-> SubSeq(line, e3 + 3, q4 - 1),
                  request   |-> SubSeq(line, q4 + 3, q5 - 1),
                  status    |-> SubSeq(line, q5 + 2, e6),
                  bytes_sent |-> SubSeq(line, e6 + 2, e7),
                  referer   |-> SubSeq(line, e7 + 3, q8 - 1),
                  ua        |-> SubSeq(line, q8 + 3, q9 - 1),
                  extra     |-> SubSeq(line, q9 + 1, Len(line))]))))))
        ELSE None))))

parse_log_line(line) ==
    Bind(LOG_PATTERN(line), LAMBDA match :
        IF match # None
        THEN Bind(split(match.request), LAMBDA words :
                 [ip         |-> match.ip,
                  timestamp  |-> match.timestamp,
                  method     |-> IF Len(words) >= 2 THEN words[1] ELSE "UNKNOWN",
                  url        |-> IF Len(words) >= 2 THEN words[2] ELSE match.request,
                  status     |-> int(match.status),
                  bytes      |-> int(match.bytes_sent),
                  referer    |-> match.referer,
                  user_agent |-> match.ua])
        ELSE None)

(***************************************************************************)
(* models/db_preprocess.py: parse_db_log                                   *)
(***************************************************************************)
\* positions where the search for whitespace, Query or Execute, whitespace finds its keyword
DbMarkers(line, kw) == {k \in 2..Len(line) :
                           /\ StartsAt(line, k, kw)
                           /\ IsSpace(Char(line, k - 1))
                           /\ k + Len(kw) <= Len(line)
                           /\ IsSpace(Char(line, k + Len(kw)))}

parse_db_log(raw) ==
    Bind(strip(raw), LAMBDA line :
    Bind({<<k, kw>> \in (1..Len(line)) \X {"Query", "Execute"} : k \in DbMarkers(line, kw)}, LAMBDA marks :
        IF marks # {}
        THEN Bind(CHOOSE m \in marks : \A n \in marks : m[1] <= n[1], LAMBDA m :
             Bind(RunEnd(line, m[1] + Len(m[2]), IsSpace) + 1, LAMBDA rest :
                 strip(SubSeq(line, rest, Len(line)))))
        ELSE line))

(***************************************************************************)
(* Inputs                                                                  *)
(***************************************************************************)
W_ok == "10.0.0.5 - - [t] \"GET /index.html HTTP/1.1\" 200 5 \"-\" \"Mozilla\""

W_admin == "10.0.0.1 - - [t] \"GET /Admin HTTP/1.1\" 200 5 \"-\" \"Mozilla\""

W_cmd == "10.0.0.2 - - [t] \"GET /?cmd=ls HTTP/1.1\" 200 5 \"-\" \"Mozilla\""

W_tool == "10.0.0.9 - - [t] \"GET / HTTP/1.1\" 200 5 \"-\" \"sqlmap/1.0\""

\* not in the combined access-log shape, although it names /admin
W_bad == "GET /admin HTTP/1.1"

E_ok == "10.0.0.7 - - [t] \"POST /mail/send HTTP/1.1\" 200 5 \"-\" \"Thunderbird\""

E_phish == "10.0.0.8 - - [t] \"GET /verify-account HTTP/1.1\" 200 5 \"-\" \"Thunderbird\""

\* the status field is not a number
E_bad == "10.0.0.8 - - [t] \"GET /verify HTTP/1.1\" abc 5 \"-\" \"curl\""

D_ok == "2025-11-19T10:00:00Z 3 Query SELECT 1"

D_drop == "2025-11-19T10:00:01Z 3 Query Drop Table users"

D_trunc == "truncate t"

\* DROP TABLE stands before the marker, so that the query parsed is SELECT 1
D_marker == "DROP TABLE Query SELECT 1"

D_blank == "  "

WebInputs == {W_ok, W_admin, W_cmd, W_tool, W_bad}

DbInputs == {D_ok, D_drop, D_trunc, D_marker, D_blank}

EmailInputs == {E_ok, E_phish, E_bad}

LogTypes == {"web", "db", "email", "ftp"}

InputsFor(log_type) ==
    CASE log_type = "web" -> WebInputs
      [] log_type = "db" -> DbInputs
      [] log_type = "email" -> EmailInputs
      [] OTHER -> {W_admin, D_drop}

\* Lines for the signature rules: every URL below with every user agent, in the
\* combined access-log shape, and queries in the general-log shape.  The URLs
\* and queries match no category, one category, or several.
AccessLine(url, ua) == "10.0.0.3 - - [t] \"GET " \o url \o " HTTP/1.1\" 200 5 \"-\" \"" \o ua \o "\""

WebRuleUrls == {"/index.html", "/admin", "/../etc", "/<script>", "/?q=union+select",
                "/admin/../etc", "/..%2f<script>", "/<script>?q=or+1=1"}

WebRuleAgents == {"Mozilla", "sqlmap/1.0"}

EmailRuleUrls == {"/mail/send", "/verify", "/casino", "/a.exe", "/verify-casino", "/verify.exe", "/casino.zip"}

EmailRuleAgents == {"Thunderbird", "curl/8"}

WebRuleLines == {AccessLine(url, ua) : url \in WebRuleUrls, ua \in WebRuleAgents}

EmailRuleLines == {AccessLine(url, ua) : url \in EmailRuleUrls, ua \in EmailRuleAgents}

DbRuleLines == {"2025-11-19T10:00:02Z 3 Query " \o q :
                   q \in {"SELECT 1", "SELECT 1 union select 2", "SELECT 1; update t set a=1",
                          "drop table t", "SELECT 1 union select 2; delete from t",
                          "x' or 1=1; drop table t", "SELECT 1; truncate t"}}

RuleLinesFor(log_type) ==
    CASE log_type = "web" -> WebRuleLines
      [] log_type = "db" -> DbRuleLines
      [] log_type = "email" -> EmailRuleLines

\* The parsers are pure, so their results on the input lines are tabulated once
AllLines == WebInputs \cup DbInputs \cup EmailInputs \cup WebRuleLines \cup EmailRuleLines \cup DbRuleLines

Parsed == [l \in AllLines |-> parse_log_line(l)]

Query == [l \in AllLines |-> parse_db_log(l)]

Records == {Parsed[l] : l \in AllLines} \ {None}

Queries == {Query[l] : l \in AllLines}

(***************************************************************************)
(* cms/ids_manager.py: the alert list                                      *)
(* self is the IDSManager instance: its three models and its alert list,   *)
(* and three quantities the verification development keeps beside them:    *)
(* clock, the number of alerts created so far (datetime.now() is read once *)
(* per alert, so clock orders the timestamps); appended, the number of     *)
(* alerts created since the list was last cleared; last_id, the id given   *)
(* to the alert created last (0 before the first).                         *)
(***************************************************************************)
max_alerts == 100

\* _create_alert with pop() in place of pop(0): at capacity the newest alert is dropped
_create_alert_evict_newest(self, alert_type, severity, attack_type, payload, source_ip, user_agent, confidence) ==
    LET alert == [id         |-> Len(self.alerts) + 1,
                  timestamp  |-> self.clock + 1,
                  alert_type |-> alert_type,
                  severity   |-> severity,
                  source_ip  |-> source_ip,
                  attack_type |-> attack_type,
                  payload    |-> payload,
                  user_agent |-> user_agent,
                  confidence |-> confidence,
                  status     |-> "active"]
        appended == Append(self.alerts, alert)
    IN [self  |-> [self EXCEPT !.alerts = IF Len(appended) > max_alerts
                                          THEN SubSeq(appended, 1, Len(appended) - 1) ELSE appended,
                               !.clock  = self.clock + 1,
                               !.appended = self.appended + 1,
                               !.last_id = alert.id],
        alert |-> alert]

\* _create_alert without self.alerts.append(alert): the alert is returned but not kept
_create_alert_not_stored(self, alert_type, severity, attack_type, payload, source_ip, user_agent, confidence) ==
    LET alert == [id         |-> Len(self.alerts) + 1,
                  timestamp  |-> self.clock + 1,
                  alert_type |-> alert_type,
                  severity   |-> severity,
                  source_ip  |-> source_ip,
                  attack_type |-> attack_type,
                  payload    |-> payload,
                  user_agent |-> user_agent,
                  confidence |-> confidence,
                  status     |-> "active"]
    IN [self  |-> [self EXCEPT !.clock  = self.clock + 1,
                               !.appended = self.appended + 1,
                               !.last_id = alert.id],
        alert |-> alert]

_create_alert(self, alert_type, severity, attack_type, payload, source_ip, user_agent, confidence) ==
    LET alert == [id         |-> Len(self.alerts) + 1,
                  timestamp  |-> self.clock + 1,
                  alert_type |-> alert_type,
                  severity   |-> severity,
                  source_ip  |-> source_ip,
                  attack_type |-> attack_type,
                  payload    |-> payload,
                  user_agent |-> user_agent,
                  confidence |-> confidence,
                  status     |-> "active"]
        appended == Append(self.alerts, alert)
    IN [self  |-> [self EXCEPT !.alerts = IF Len(appended) > max_alerts THEN Tail(appended) ELSE appended,
                               !.clock  = self.clock + 1,
                               !.appended = self.appended + 1,
                               !.last_id = alert.id],
        alert |-> alert]

(***************************************************************************)
(* cms/ids_manager.py: the classifier adapter                              *)
(* A classifier artifact is opaque: each of its three entry points either  *)
(* returns a value or raises.  clf gives the answers of one analyze call:  *)
(*   clf.predict, clf.decision_function : [exc, v]                         *)
(*   clf.predict_proba                  : [exc, row]  (row = proba[0])     *)
(* exc is "" for a normal return, "None" when the call returns None, and   *)
(* otherwise the name of the exception raised.                             *)
(***************************************************************************)
Max(S) == CHOOSE m \in S : \A n \in S : m >= n

abs(x) == IF x < 0 THEN -x ELSE x

\* the confidence fallback chain; exc # "" means the exception leaves the chain
score(clf) ==
    IF clf.decision_function.exc = ""
    THEN [exc |-> "", trace |-> <<"decision_function">>, confidence |-> abs(clf.decision_function.v)]
    ELSE IF clf.decision_function.exc \in {"AttributeError", "TypeError"}
    THEN [exc |-> "", trace |-> <<"decision_function", "predict_proba">>,
          confidence |-> IF clf.predict_proba.exc = "" THEN Max({clf.predict_proba.row[i] : i \in DOMAIN clf.predict_proba.row})
                         ELSE 5000]
    ELSE [exc |-> clf.decision_function.exc, trace |-> <<"decision_function">>, confidence |-> 0]

\* what one analyze call hands back: the instance, the return value, the pipeline
\* stages the call went through, and what decided it
Outcome(self, ret, trace, verdict) == [self |-> self, ret |-> ret, trace |-> trace, verdict |-> verdict]

\* classify with the test on the label turned round: an alert when prediction == 1
classify_alerts_on_inlier(self, clf, alert_type, severity, attack_type, payload, source_ip, user_agent, trace) ==
    IF clf.predict.exc # ""
    THEN Outcome(self, None, trace \o <<"extract_features", "predict">>, "error")
    ELSE LET sc == score(clf)
             tr == trace \o <<"extract_features", "predict">> \o sc.trace
         IN IF sc.exc # "" THEN Outcome(self, None, tr, "error")
            ELSE IF clf.predict.v = 1
            THEN LET c == _create_alert(self, alert_type, severity, attack_type, payload,
                                        source_ip, user_agent, sc.confidence)
                 IN Outcome(c.self, c.alert, tr \o <<"_create_alert">>, "anomaly")
            ELSE Outcome(self, None, tr, "inlier")

\* features -> predict -> confidence -> alert when prediction == -1
classify(self, clf, alert_type, severity, attack_type, payload, source_ip, user_agent, trace) ==
    IF clf.predict.exc # ""
    THEN Outcome(self, None, trace \o <<"extract_features", "predict">>, "error")
    ELSE LET sc == score(clf)
             tr == trace \o <<"extract_features", "predict">> \o sc.trace
         IN IF sc.exc # "" THEN Outcome(self, None, tr, "error")
            ELSE IF clf.predict.v = -1
            THEN LET c == _create_alert(self, alert_type, severity, attack_type, payload,
                                        source_ip, user_agent, sc.confidence)
                 IN Outcome(c.self, c.alert, tr \o <<"_create_alert">>, "anomaly")
            ELSE Outcome(self, None, tr, "inlier")

(***************************************************************************)
(* cms/ids_manager.py: analyze_web_log                                     *)
(***************************************************************************)
WebAdminPatterns == {"admin", "cmd=", "whoami", "shell", "exec", "system", "config", "test", "debug", "api/admin"}

WebTraversalPatterns == {"..", "%2e%2e", "..%2f", "%252e%252e"}

WebScriptPatterns == {"<script", "javascript:", "%3cscript", "<iframe"}

WebSqlPatterns == {"' or '", "or 1=1", "or+1=1", "%20or%20", "union select", "union+select", "exec(",
                   "drop ", "drop+", "insert ", "insert+", "update ", "update+"}

WebToolAgents == {"sqlmap", "curl", "wget", "nikto", "nmap", "burp", "havij"}

\* the if/elif chain over the URL, then the user-agent check that follows it
web_signature(parsed) ==
    LET url == lower(parsed.url)
        user_agent == lower(parsed.user_agent)
        byUrl == IF ContainsAny(url, WebAdminPatterns)
                 THEN [manual_alert |-> TRUE, attack_reason |-> "Admin/command access detected"]
                 ELSE IF ContainsAny(url, WebTraversalPatterns)
                 THEN [manual_alert |-> TRUE, attack_reason |-> "Path traversal attempt"]
                 ELSE IF ContainsAny(url, WebScriptPatterns)
                 THEN [manual_alert |-> TRUE, attack_reason |-> "Script injection attempt"]
                 ELSE IF ContainsAny(url, WebSqlPatterns)
                 THEN [manual_alert |-> TRUE, attack_reason |-> "SQL injection pattern detected"]
                 ELSE [manual_alert |-> FALSE, attack_reason |-> ""]
    IN IF ContainsAny(user_agent, WebToolAgents)
       THEN [manual_alert |-> TRUE, attack_reason |-> "Suspicious tool: " \o parsed.user_agent]
       ELSE byUrl

\* f"{parsed['method']} {parsed['url']}"
Payload == [parsed \in Records |-> parsed.method \o " " \o parsed.url]

\* the rules are pure: their verdicts on the parsed input lines, tabulated once
WebSignature == [parsed \in Records |-> web_signature(parsed)]

\* analyze_web_log with the model consulted before the manual_alert test
analyze_web_log_classifier_first(self, log_line, clf) ==
    IF self.web_model = None THEN Outcome(self, None, << >>, "no_model")
    ELSE LET parsed == Parsed[log_line]
         IN IF parsed = None THEN Outcome(self, None, <<"parse_log_line">>, "unparsed")
            ELSE LET sig == WebSignature[parsed]
                     payload == Payload[parsed]
                     ml == classify(self, clf, "WEB_ANOMALY", "HIGH", "Web Layer Attack (ML Detection)", payload,
                                    parsed.ip, parsed.user_agent, <<"parse_log_line", "signature">>)
                 IN IF sig.manual_alert /\ ml.ret = None
                    THEN LET c == _create_alert(self, "WEB_ANOMALY", "HIGH", sig.attack_reason, payload,
                                                parsed.ip, parsed.user_agent, 9500)
                         IN Outcome(c.self, c.alert, ml.trace \o <<"_create_alert">>, "signature")
                    ELSE ml

analyze_web_log(self, log_line, clf) ==
    IF self.web_model = None THEN Outcome(self, None, << >>, "no_model")
    ELSE LET parsed == Parsed[log_line]
         IN IF parsed = None THEN Outcome(self, None, <<"parse_log_line">>, "unparsed")
            ELSE LET sig == WebSignature[parsed]
                     payload == Payload[parsed]
                 IN IF sig.manual_alert
                    THEN LET c == _create_alert(self, "WEB_ANOMALY", "HIGH", sig.attack_reason, payload,
                                                parsed.ip, parsed.user_agent, 9500)
                         IN Outcome(c.self, c.alert, <<"parse_log_line", "signature", "_create_alert">>, "signature")
                    ELSE classify(self, clf, "WEB_ANOMALY", "HIGH", "Web Layer Attack (ML Detection)", payload,
                                  parsed.ip, parsed.user_agent, <<"parse_log_line", "signature">>)

(***************************************************************************)
(* cms/ids_manager.py: analyze_db_log                                      *)
(***************************************************************************)
sql_injection_patterns == {"' or '1'='1", "' or 1=1", "' or 'a'='a", "admin' --", "' --", "'; drop", "'; delete",
                           "'; exec", "'; execute", "union select", "union all", "exec(", "execute(",
                           "script>", "<script"}

stacked_keywords == <<"delete", "drop", "truncate", "insert", "update", "exec", "execute">>

\* the three checks in source order; a later check overwrites attack_reason
db_signature(query) ==
    LET query_lower == lower(query)
        injection == ContainsAny(query_lower, sql_injection_patterns)
        stackedAt == {i \in DOMAIN stacked_keywords : Contains(query_lower, stacked_keywords[i])}
        stacked == Contains(query_lower, "; ") /\ Contains(query, ";") /\ stackedAt # {}
        dangerous == Contains(query_lower, "drop") \/ Contains(query_lower, "truncate")
    IN [manual_alert  |-> injection \/ stacked \/ dangerous,
        attack_reason |-> IF dangerous THEN "Dangerous operation detected (DROP/TRUNCATE)"
                          ELSE IF stacked
                          THEN "Stacked query with " \o upper(stacked_keywords[Min(stackedAt)]) \o " detected"
                          ELSE IF injection THEN "SQL Injection detected"
                          ELSE ""]

DbSignature == [query \in Queries |-> db_signature(query)]

DbPayload == [query \in Queries |-> Truncate(query, 200)]

analyze_db_log(self, log_line, clf) ==
    IF self.db_model = None THEN Outcome(self, None, << >>, "no_model")
    ELSE LET query == Query[log_line]
         IN IF query = "" THEN Outcome(self, None, <<"parse_db_log">>, "unparsed")
            ELSE LET sig == DbSignature[query]
                     payload == DbPayload[query]
                 IN IF sig.manual_alert
                    THEN LET c == _create_alert(self, "DB_ANOMALY", "CRITICAL", sig.attack_reason, payload,
                                                "Unknown", "Unknown", 9500)
                         IN Outcome(c.self, c.alert, <<"parse_db_log", "signature", "_create_alert">>, "signature")
                    ELSE classify(self, clf, "DB_ANOMALY", "CRITICAL",
                                  "SQL Injection/Database Attack (ML Detection)", payload,
                                  "Unknown", "Unknown", <<"parse_db_log", "signature">>)

(***************************************************************************)
(* cms/ids_manager.py: analyze_email_log                                   *)
(***************************************************************************)
phishing_patterns == {"verify", "confirm", "urgent", "action+required", "action%20required",
                      "update+account", "update%20account", "click+here", "click%20here",
                      "login+required", "login%20required", "verify+identity", "verify%20identity",
                      "confirm+identity", "confirm%20identity", "unusual+activity", "unusual%20activity",
                      "suspend", "expire", "locked", "disable", "compromised"}

spam_patterns == {"viagra", "casino", "lottery", "prize", "click+link", "click%20link",
                  "open+attachment", "open%20attachment", "download", "free+money",
                  "free%20money", "congrats", "winner", "claim+reward", "claim%20reward"}

dangerous_patterns == {".exe", ".bat", ".cmd", ".scr", ".vbs", ".js", ".zip", ".rar",
                       "malware", "trojan", "ransomware", "exploit", "backdoor"}

suspicious_agents == {"curl", "wget", "python", "java", "powershell", "bash",
                      "perl", "ruby", "node", "scrapy", "bot", "exploit"}

\* email_signature without severity = "CRITICAL" in the dangerous-pattern branch:
\* the severity stays what the branches before it left
email_signature_severity_kept(parsed) ==
    LET url == lower(parsed.url)
        user_agent == lower(parsed.user_agent)
        phishing == ContainsAny(url, phishing_patterns)
        spam == ContainsAny(url, spam_patterns)
        dangerous == ContainsAny(url, dangerous_patterns)
        agent == ContainsAny(user_agent, suspicious_agents)
    IN IF agent
       THEN [manual_alert |-> TRUE, severity |-> "HIGH",
             attack_reason |-> "Suspicious email client: " \o parsed.user_agent]
       ELSE IF dangerous
       THEN [manual_alert |-> TRUE, severity |-> IF phishing /\ ~spam THEN "HIGH" ELSE "MEDIUM",
             attack_reason |-> "Dangerous file/payload pattern detected"]
       ELSE IF spam
       THEN [manual_alert |-> TRUE, severity |-> "MEDIUM",
             attack_reason |-> "Spam/Malware email pattern detected"]
       ELSE IF phishing
       THEN [manual_alert |-> TRUE, severity |-> "HIGH",
             attack_reason |-> "Phishing email pattern detected"]
       ELSE [manual_alert |-> FALSE, severity |-> "MEDIUM", attack_reason |-> ""]

\* four independent ifs in source order; the last one that matches sets reason and severity
email_signature(parsed) ==
    LET url == lower(parsed.url)
        user_agent == lower(parsed.user_agent)
        phishing == ContainsAny(url, phishing_patterns)
        spam == ContainsAny(url, spam_patterns)
        dangerous == ContainsAny(url, dangerous_patterns)
        agent == ContainsAny(user_agent, suspicious_agents)
    IN IF agent
       THEN [manual_alert |-> TRUE, severity |-> "HIGH",
             attack_reason |-> "Suspicious email client: " \o parsed.user_agent]
       ELSE IF dangerous
       THEN [manual_alert |-> TRUE, severity |-> "CRITICAL",
             attack_reason |-> "Dangerous file/payload pattern detected"]
       ELSE IF spam
       THEN [manual_alert |-> TRUE, severity |-> "MEDIUM",
             attack_reason |-> "Spam/Malware email pattern detected"]
       ELSE IF phishing
       THEN [manual_alert |-> TRUE, severity |-> "HIGH",
             attack_reason |-> "Phishing email pattern detected"]
       ELSE [manual_alert |-> FALSE, severity |-> "MEDIUM", attack_reason |-> ""]

EmailSignature == [parsed \in Records |-> email_signature(parsed)]

\* analyze_email_log without the test on parsed: the rules are entered with None
\* and the AttributeError they raise is caught by the handler of the method
analyze_email_log_no_parse_test(self, log_line, clf) ==
    IF self.email_model = None THEN Outcome(self, None, << >>, "no_model")
    ELSE LET parsed == Parsed[log_line]
         IN IF parsed = None THEN Outcome(self, None, <<"parse_log_line", "signature">>, "error")
            ELSE LET sig == EmailSignature[parsed]
                     payload == Payload[parsed]
                 IN IF sig.manual_alert
                    THEN LET c == _create_alert(self, "EMAIL_ANOMALY", sig.severity, sig.attack_reason, payload,
                                                parsed.ip, "Unknown", 9000)
                         IN Outcome(c.self, c.alert, <<"parse_log_line", "signature", "_create_alert">>, "signature")
                    ELSE classify(self, clf, "EMAIL_ANOMALY", "MEDIUM", "Email Service Attack (ML Detection)",
                                  payload, parsed.ip, "Unknown", <<"parse_log_line", "signature">>)

analyze_email_log(self, log_line, clf) ==
    IF self.email_model = None THEN Outcome(self, None, << >>, "no_model")
    ELSE LET parsed == Parsed[log_line]
         IN IF parsed = None THEN Outcome(self, None, <<"parse_log_line">>, "unparsed")
            ELSE LET sig == EmailSignature[parsed]
                     payload == Payload[parsed]
                 IN IF sig.manual_alert
                    THEN LET c == _create_alert(self, "EMAIL_ANOMALY", sig.severity, sig.attack_reason, payload,
                                                parsed.ip, "Unknown", 9000)
                         IN Outcome(c.self, c.alert, <<"parse_log_line", "signature", "_create_alert">>, "signature")
                    ELSE classify(self, clf, "EMAIL_ANOMALY", "MEDIUM", "Email Service Attack (ML Detection)",
                                  payload, parsed.ip, "Unknown", <<"parse_log_line", "signature">>)

save_alerts_newest_only(self, file, io_ok) ==
    IF io_ok THEN [exists |-> TRUE, content |-> SubSeq(self.alerts, Len(self.alerts), Len(self.alerts))]
    ELSE file

\* save_alerts: json.dump of self.alerts into alerts/alerts.json; a failure is
\* caught and printed, and leaves the list in memory as it is
save_alerts(self, file, io_ok) ==
    IF io_ok THEN [exists |-> TRUE, content |-> self.alerts] ELSE file

clear_alerts_keeps_newest(self) ==
    [self EXCEPT !.alerts = IF self.alerts = << >> THEN << >> ELSE <<self.alerts[Len(self.alerts)]>>,
                 !.appended = 0]

\* clear_alerts: self.alerts.clear(), then save_alerts()
clear_alerts(self) == [self EXCEPT !.alerts = << >>, !.appended = 0]

\* Python's seq[start:] for any integer start
SliceFrom(seq, start) ==
    LET from == IF start < 0 THEN (IF Len(seq) + start < 0 THEN 0 ELSE Len(seq) + start)
                ELSE (IF start > Len(seq) THEN Len(seq) ELSE start)
    IN SubSeq(seq, from + 1, Len(seq))

\* an optional string argument is None or a string, written Given(v)
Given(v) == [v |-> v]

\* Python's truth test of an optional string argument: None and '' are false
Truthy(arg) == arg # None /\ arg.v # ""

\* get_alerts: the two optional filters, then filtered[-limit:]
get_alerts(self, alert_type, severity, limit) ==
    LET by_type == IF Truthy(alert_type)
                   THEN SelectSeq(self.alerts, LAMBDA a : a.alert_type = alert_type.v)
                   ELSE self.alerts
        filtered == IF Truthy(severity)
                    THEN SelectSeq(by_type, LAMBDA a : a.severity = severity.v)
                    ELSE by_type
    IN SliceFrom(filtered, 0 - limit)

\* the dict.get(key, 0) + 1 loop of get_statistics over one field: a function
\* from the values that occur to their number of occurrences
CountBy(alerts, field) ==
    [v \in {alerts[i][field] : i \in DOMAIN alerts} |->
        Cardinality({i \in DOMAIN alerts : alerts[i][field] = v})]

get_statistics_last_is_oldest(self) ==
    [total_alerts |-> Len(self.alerts),
     alert_types |-> CountBy(self.alerts, "alert_type"),
     severity_distribution |-> CountBy(self.alerts, "severity"),
     models_loaded |-> [web_model |-> self.web_model # None,
                        db_model |-> self.db_model # None,
                        email_model |-> self.email_model # None],
     last_alert |-> IF self.alerts # << >> THEN self.alerts[1] ELSE None]

get_statistics(self) ==
    [total_alerts |-> Len(self.alerts),
     alert_types |-> CountBy(self.alerts, "alert_type"),
     severity_distribution |-> CountBy(self.alerts, "severity"),
     models_loaded |-> [web_model |-> self.web_model # None,
                        db_model |-> self.db_model # None,
                        email_model |-> self.email_model # None],
     last_alert |-> IF self.alerts # << >> THEN self.alerts[Len(self.alerts)] ELSE None]

(***************************************************************************)
(* Classifier answers                                                      *)
(***************************************************************************)
\* the answers a classifier artifact can give to one analyze call
Returns(v) == [exc |-> "", v |-> v]

Raises(e) == [exc |-> e, v |-> 0]

Row(r) == [exc |-> "", row |-> r]

NoRow(e) == [exc |-> e, row |-> << >>]

Unconsulted == [predict |-> Raises("ValueError"), decision_function |-> Raises("ValueError"),
                predict_proba |-> NoRow("ValueError")]

\* every answer combination, written once: an entry point that is not reached
\* keeps the answer it has in Unconsulted
ClfAnswers ==
    {c \in [predict : {Returns(1), Returns(-1), Raises("ValueError")},
            decision_function : {Returns(-1200), Raises("AttributeError"), Raises("ValueError")},
            predict_proba : {Row(<<2000, 8000>>), NoRow("None"), NoRow("ValueError")}] :
        /\ c.predict.exc # "" => c.decision_function = Unconsulted.decision_function
        /\ c.decision_function.exc \notin {"AttributeError", "TypeError"}
               => c.predict_proba = Unconsulted.predict_proba}

\* the answers that make a difference to a call: all of them when the call
\* reaches predict, one otherwise
Consulted(out) == \E i \in DOMAIN out.trace : out.trace[i] = "predict"

AnswersFor(out) == IF Consulted(out) THEN ClfAnswers ELSE {Unconsulted}

(***************************************************************************)
(* State                                                                   *)
(*   ids_manager  the global of enhanced_api.py: None until init_cms has   *)
(*                built the IDSManager, then the instance                  *)
(*   alert_file   alerts/alerts.json                                       *)
(*   obs          one record per analyze call made by the last operation   *)
(*   resp         what the last operation answered                         *)
(*   ALERTS_FILE  data/alerts.json, the file of the two monitor processes  *)
(*   monitor      the position and the locals of each monitor process      *)
(*   log_file     data/web_access.log and data/db_query.log, each as the   *)
(*                pieces of text written to it so far                      *)
(*   collector    the position of each collector thread or process         *)
(*   deployment   deployment_in_progress of enhanced_api.py, the requests  *)
(*                being handled and the background threads running         *)
(***************************************************************************)
VARIABLES ids_manager, alert_file, obs, resp, ALERTS_FILE, monitor, log_file, collector, deployment

vars == <<ids_manager, alert_file, obs, resp, ALERTS_FILE, monitor, log_file, collector, deployment>>

MaxClock == 2

MaxBulk == 2

StoreExtra == 2

Model(name) == [model |-> name]

\* IDSManager.__init__: each model is loaded or, when its file is missing or
\* does not load, None
IDSManager(web, db, email) ==
    [web_model |-> web, db_model |-> db, email_model |-> email,
     alerts |-> << >>, clock |-> 0, appended |-> 0, last_id |-> 0]

Instances == {IDSManager(w, d, e) : w \in {None, Model("web_model.pkl")},
                                    d \in {None, Model("db_model.pkl")},
                                    e \in {None, Model("email_model.pkl")}}

\* the answer of an operation: the HTTP status and the fields of the JSON body
\* that the handlers fill in
Response(op, log_type, status, error, alert, alerts, total) ==
    [op |-> op, log_type |-> log_type, status |-> status, error |-> error,
     alert |-> alert, alerts |-> alerts, total_analyzed |-> total, again |-> FALSE]

\* the request just before this one analyzed the same line in the same domain;
\* again is kept beside the answer for the verification development
Again(log_type, line) ==
    /\ resp.op = "analyze_log" /\ resp.status = 200
    /\ Len(obs) = 1 /\ obs[1].domain = log_type /\ obs[1].line = line

\* the monitor processes: models/ids_monitor.py and models/db_ids_monitor.py
Monitors == {"web", "db"}

\* a monitor process before monitor_logs or monitor_db_logs is entered: pc is
\* its position, alerts and alert_data are the locals of save_alert, pos is the
\* offset of f in its log file; lines (the number of lines read), raised (the
\* alerts handed to save_alert so far), exc (the exception that ended the
\* process), origin (the length of the log file when the loop was entered) and
\* seen (what f.readline() returned from the log file, in order) are kept for
\* the verification development
NotStarted == [pc |-> "start", alerts |-> << >>, alert_data |-> None, lines |-> 0,
               raised |-> << >>, exc |-> "", pos |-> 0, origin |-> 0, seen |-> << >>]

\* the collectors: one thread of log_collector.py per web-server container,
\* and the process of db_log_collector.py
Collectors == {"web-server-1", "web-server-2", "db-server-1"}

\* a collector before it is started: pc is its position, rest the end of a line
\* whose beginning is in the file already; tries (the number of calls of
\* get_clean_log_path), events (the number of lines received) and since (the
\* lines appended while the monitor of the file was in its loop) are kept for
\* the verification development
NotRunning == [pc |-> "start", rest |-> "", tries |-> 0, events |-> 0, since |-> << >>]

\* enhanced_api.py at import: no operation runs; request is the position of
\* each request being handled, threads the background threads running
Requests == {"r1", "r2"}

Idle == [deployment_in_progress |-> FALSE, request |-> [r \in Requests |-> "none"],
         answer |-> [r \in Requests |-> 0], threads |-> {}]

\* init_cms: on failure ids_manager stays None; the monitors are not started
\* and data/alerts.json does not exist
Init ==
    /\ ids_manager \in {None} \cup Instances
    /\ alert_file = [exists |-> FALSE, content |-> << >>]
    /\ obs = << >>
    /\ resp = Response("init_cms", "", 0, "", None, << >>, 0)
    /\ ALERTS_FILE = [exists |-> FALSE, valid |-> TRUE, content |-> << >>]
    /\ monitor = [m \in Monitors |-> NotStarted]
    /\ log_file = [m \in Monitors |-> ""]
    /\ collector = [c \in Collectors |-> NotRunning]
    /\ deployment = Idle

\* what is recorded of one analyze call: its input, its return value, the stages
\* it went through, what decided it, the label predict returned (0 when predict
\* was not reached or raised) and the number of alerts it created
Observe(domain, line, before, out, clf) ==
    [domain |-> domain, line |-> line, ret |-> out.ret, trace |-> out.trace,
     verdict |-> out.verdict,
     prediction |-> IF Consulted(out) /\ clf.predict.exc = "" THEN clf.predict.v ELSE 0,
     created |-> out.self.clock - before.clock]

\* the dispatch on the type field shared by both handlers
Dispatch(self, log_type, line, clf) ==
    CASE log_type = "web" -> analyze_web_log(self, line, clf)
      [] log_type = "db" -> analyze_db_log(self, line, clf)
      [] log_type = "email" -> analyze_email_log(self, line, clf)

(***************************************************************************)
(* enhanced_api.py: POST /api/ids/analyze                                  *)
(* log_type is the request's type field after its default, 'web'.          *)
(***************************************************************************)
analyze_log(log_type, log_line, clf, io_ok) ==
    /\ UNCHANGED <<ALERTS_FILE, monitor, log_file, collector, deployment>>
    /\ IF ids_manager = None
       THEN /\ resp' = Response("analyze_log", log_type, 500, "IDS not initialized", None, << >>, 0)
            /\ obs' = << >>
            /\ UNCHANGED <<ids_manager, alert_file>>
       ELSE IF log_line = ""
       THEN /\ resp' = Response("analyze_log", log_type, 400, "log_line is required", None, << >>, 0)
            /\ obs' = << >>
            /\ UNCHANGED <<ids_manager, alert_file>>
       ELSE IF log_type \notin {"web", "db", "email"}
       THEN /\ resp' = Response("analyze_log", log_type, 400, "Unknown log type: " \o log_type, None, << >>, 0)
            /\ obs' = << >>
            /\ UNCHANGED <<ids_manager, alert_file>>
       ELSE \E out \in {Dispatch(ids_manager, log_type, log_line, clf)} :
               /\ ids_manager' = out.self
               /\ alert_file' = IF out.ret # None THEN save_alerts(out.self, alert_file, io_ok) ELSE alert_file
               /\ obs' = <<Observe(log_type, log_line, ids_manager, out, clf)>>
               /\ resp' = [Response("analyze_log", log_type, 200, "", out.ret, << >>, 0)
                               EXCEPT !.again = Again(log_type, log_line)]

(***************************************************************************)
(* enhanced_api.py: POST /api/ids/bulk-analyze                             *)
(***************************************************************************)
\* the for loop over logs: acc carries the instance, detected_alerts and the
\* observations of the calls made so far
RECURSIVE bulk_loop(_, _, _, _, _)
bulk_loop(acc, log_type, logs, clfs, i) ==
    IF i > Len(logs) THEN acc
    ELSE IF log_type \in {"web", "db", "email"}
    THEN Bind(Dispatch(acc.self, log_type, logs[i], clfs[i]), LAMBDA out :
             bulk_loop([self |-> out.self,
                        detected_alerts |-> IF out.ret # None THEN Append(acc.detected_alerts, out.ret)
                                            ELSE acc.detected_alerts,
                        obs |-> Append(acc.obs, Observe(log_type, logs[i], acc.self, out, clfs[i]))],
                       log_type, logs, clfs, i + 1))
    ELSE bulk_loop(acc, log_type, logs, clfs, i + 1)

bulk_analyze_logs(log_type, logs, clfs, io_ok) ==
    /\ UNCHANGED <<ALERTS_FILE, monitor, log_file, collector, deployment>>
    /\ IF ids_manager = None
       THEN /\ resp' = Response("bulk_analyze_logs", log_type, 500, "IDS not initialized", None, << >>, 0)
            /\ obs' = << >>
            /\ UNCHANGED <<ids_manager, alert_file>>
       ELSE IF logs = << >>
       THEN /\ resp' = Response("bulk_analyze_logs", log_type, 400, "logs array is required", None, << >>, 0)
            /\ obs' = << >>
            /\ UNCHANGED <<ids_manager, alert_file>>
       ELSE \E done \in {bulk_loop([self |-> ids_manager, detected_alerts |-> << >>, obs |-> << >>],
                                  log_type, logs, clfs, 1)} :
               /\ ids_manager' = done.self
               /\ alert_file' = IF done.detected_alerts # << >> THEN save_alerts(done.self, alert_file, io_ok)
                                ELSE alert_file
               /\ obs' = done.obs
               /\ resp' = Response("bulk_analyze_logs", log_type, 200, "", None, done.detected_alerts, Len(logs))

(***************************************************************************)
(* enhanced_api.py: POST /api/ids/alerts/clear                             *)
(***************************************************************************)
api_clear_alerts(io_ok) ==
    /\ UNCHANGED <<ALERTS_FILE, monitor, log_file, collector, deployment>>
    /\ IF ids_manager = None
       THEN /\ resp' = Response("clear_alerts", "", 500, "IDS not initialized", None, << >>, 0)
            /\ obs' = << >>
            /\ UNCHANGED <<ids_manager, alert_file>>
       ELSE /\ ids_manager' = clear_alerts(ids_manager)
            /\ alert_file' = save_alerts(clear_alerts(ids_manager), alert_file, io_ok)
            /\ obs' = << >>
            /\ resp' = Response("clear_alerts", "", 200, "", None, << >>, 0)

(***************************************************************************)
(* enhanced_api.py: GET /api/ids/alerts                                    *)
(* alert_type and severity are the query arguments type and severity, None *)
(* when absent; limit is the integer argument limit after its default, 50. *)
(* The arguments are kept beside the answer.                               *)
(***************************************************************************)
api_get_alerts(alert_type, severity, limit) ==
    /\ UNCHANGED <<ALERTS_FILE, monitor, log_file, collector, deployment>>
    /\ IF ids_manager = None
       THEN /\ resp' = Response("get_alerts", "", 500, "IDS not initialized", None, << >>, 0)
                            @@ [alert_type |-> alert_type, severity |-> severity, limit |-> limit]
            /\ obs' = << >>
            /\ UNCHANGED <<ids_manager, alert_file>>
       ELSE \E alerts \in {get_alerts(ids_manager, alert_type, severity, limit)} :
               /\ resp' = Response("get_alerts", "", 200, "", None, alerts, 0)
                               @@ [alert_type |-> alert_type, severity |-> severity, limit |-> limit,
                                   total |-> Len(alerts),
                                   models_loaded |-> get_statistics(ids_manager).models_loaded]
               /\ obs' = << >>
               /\ UNCHANGED <<ids_manager, alert_file>>

(***************************************************************************)
(* enhanced_api.py: GET /api/ids/status                                    *)
(***************************************************************************)
get_ids_status ==
    /\ UNCHANGED <<ALERTS_FILE, monitor, log_file, collector, deployment>>
    /\ IF ids_manager = None
       THEN /\ resp' = Response("get_ids_status", "", 500, "IDS not initialized", None, << >>, 0)
            /\ obs' = << >>
            /\ UNCHANGED <<ids_manager, alert_file>>
       ELSE /\ resp' = Response("get_ids_status", "", 200, "", None, << >>, 0)
                            @@ [statistics |-> get_statistics(ids_manager)]
            /\ obs' = << >>
            /\ UNCHANGED <<ids_manager, alert_file>>

(***************************************************************************)
(* Specifications                                                          *)
(***************************************************************************)
\* the snapshot write succeeds; SpecDisk lets it fail
DiskAnswers == {TRUE}

\* the instance can still create n alerts within the bound
Room(bound, n) == IF ids_manager = None THEN TRUE ELSE ids_manager.clock + n <= bound

\* the classifier answers of a bulk request: every line of the request is an
\* inlier, or every line is an anomaly, with a decision-function score
BulkAnswers == {c \in ClfAnswers : c.predict.exc = "" /\ c.decision_function.exc = ""}

BulkInputsFor(log_type) ==
    CASE log_type = "web" -> {W_ok, W_admin}
      [] log_type = "db" -> {D_ok, D_drop}
      [] log_type = "email" -> {E_ok, E_phish}
      [] OTHER -> {W_admin}

BulkLogs(log_type) == UNION {[1..n -> BulkInputsFor(log_type)] : n \in 0..MaxBulk}

ApiAnalyze ==
    /\ Room(MaxClock, 1)
    /\ \E log_type \in LogTypes : \E line \in InputsFor(log_type) \cup {""} :
         \E clf \in IF ids_manager # None /\ log_type # "ftp" /\ line # ""
                    THEN AnswersFor(Dispatch(ids_manager, log_type, line, Unconsulted))
                    ELSE {Unconsulted} :
             \E io_ok \in DiskAnswers : analyze_log(log_type, line, clf, io_ok)

\* the answers that make a difference to a bulk request: both when one of its
\* lines reaches predict, one otherwise
BulkAnswersFor(log_type, logs) ==
    IF /\ ids_manager # None
       /\ log_type # "ftp"
       /\ \E i \in DOMAIN logs : Consulted(Dispatch(ids_manager, log_type, logs[i], Unconsulted))
    THEN BulkAnswers
    ELSE {Unconsulted}

ApiBulk ==
    \E log_type \in LogTypes : \E logs \in BulkLogs(log_type) :
        /\ Room(MaxClock, Len(logs))
        /\ \E clf \in BulkAnswersFor(log_type, logs) : \E io_ok \in DiskAnswers :
             bulk_analyze_logs(log_type, logs, [i \in 1..Len(logs) |-> clf], io_ok)

ApiClear == \E io_ok \in DiskAnswers : api_clear_alerts(io_ok)

Next == ApiAnalyze \/ ApiBulk \/ ApiClear

Spec == Init /\ [][Next]_vars

\* the alert list on its own: an instance with its models loaded and a disk
\* that works takes signature hits and clears until StoreExtra alerts past
\* its capacity have been created
InitStore ==
    /\ Init
    /\ ids_manager = IDSManager(Model("web_model.pkl"), Model("db_model.pkl"), Model("email_model.pkl"))

StoreAppend == Room(max_alerts + StoreExtra, 1) /\ analyze_log("web", W_admin, Unconsulted, TRUE)

StoreClear == api_clear_alerts(TRUE)

NextStore == StoreAppend \/ StoreClear

SpecStore == InitStore /\ [][NextStore]_vars

\* the snapshot write on its own: a benign web line and two lines that hit a
\* signature, on a disk that may fail at any write
DiskAnalyze ==
    /\ Room(MaxClock, 1)
    /\ \E line \in {W_ok, W_admin, W_cmd} : \E clf \in BulkAnswers : \E io_ok \in BOOLEAN :
         analyze_log("web", line, clf, io_ok)

DiskClear == \E io_ok \in BOOLEAN : api_clear_alerts(io_ok)

NextDisk == DiskAnalyze \/ DiskClear

\* the signature rules on their own: an instance with its models loaded analyzes
\* the rule lines, the classifier answering inlier or anomaly, until RulesClock
\* alerts have been created
RulesClock == 2

\* decision_function is the artifact's own: nothing in the code bounds the score
\* it returns, here -1.5
WideAnswers == {[c EXCEPT !.decision_function = Returns(-15000)] : c \in BulkAnswers}

RulesAnalyze ==
    /\ Room(RulesClock, 1)
    /\ \E log_type \in {"web", "db", "email"} : \E line \in RuleLinesFor(log_type) :
         \E clf \in IF Consulted(Dispatch(ids_manager, log_type, line, Unconsulted))
                    THEN BulkAnswers \cup WideAnswers ELSE {Unconsulted} :
             analyze_log(log_type, line, clf, TRUE)

RulesClear == api_clear_alerts(TRUE)

\* comprehensive_ids_test.py: analyze_web_log called on the instance itself,
\* as the tests do; nothing is saved afterwards
test_web_detection(log, clf) ==
    /\ ids_manager # None
    /\ \E out \in {analyze_web_log(ids_manager, log, clf)} :
          /\ ids_manager' = out.self
          /\ obs' = <<Observe("web", log, ids_manager, out, clf)>>
          /\ resp' = Response("test_web_detection", "web", 0, "", out.ret, << >>, 0)
          /\ UNCHANGED <<alert_file, ALERTS_FILE, monitor, log_file, collector, deployment>>

DirectAnalyze ==
    /\ Room(RulesClock, 1)
    /\ \E log \in {W_ok, W_admin} : \E clf \in BulkAnswers : test_web_detection(log, clf)

NextRules == RulesAnalyze \/ RulesClear \/ DirectAnalyze

SpecRules == InitStore /\ [][NextRules]_vars

(***************************************************************************)
(* The store seen through its queries: alerts of the three domains are     *)
(* stored, listed with and without filters, counted and cleared.           *)
(***************************************************************************)
QueryClock == 2

MaxLimit == 2

QueryTypes == {None} \cup {Given(v) : v \in {"", "WEB_ANOMALY", "DB_ANOMALY", "EMAIL_ANOMALY"}}

QuerySeverities == {None} \cup {Given(v) : v \in {"HIGH", "CRITICAL", "LOW"}}

QueryAppend ==
    /\ Room(QueryClock, 1)
    /\ \/ \E line \in {W_admin, W_ok} : \E clf \in {c \in BulkAnswers : c.predict.v = -1} :
            analyze_log("web", line, clf, TRUE)
       \/ analyze_log("db", D_drop, Unconsulted, TRUE)
       \/ analyze_log("email", E_phish, Unconsulted, TRUE)

QueryClear == api_clear_alerts(TRUE)

QueryList ==
    \E alert_type \in QueryTypes : \E severity \in QuerySeverities : \E limit \in (0 .. MaxLimit) \cup {50} :
        api_get_alerts(alert_type, severity, limit)

QueryStatus == get_ids_status

NextQuery == QueryAppend \/ QueryClear \/ QueryList \/ QueryStatus

\* init_cms has failed, or has loaded the three models
InitQuery ==
    /\ Init
    /\ ids_manager \in {None, IDSManager(Model("web_model.pkl"), Model("db_model.pkl"), Model("email_model.pkl"))}

SpecQuery == InitQuery /\ [][NextQuery]_vars

SpecDisk == InitStore /\ [][NextDisk]_vars

(***************************************************************************)
(* models/ids_monitor.py and models/db_ids_monitor.py: two processes, each *)
(* following its log file and saving its alerts to data/alerts.json. A     *)
(* step is what a process does between two accesses to the shared file.    *)
(* ALERTS_FILE.valid is FALSE while the file is open for writing and its   *)
(* JSON text is not written yet; the bytes of two overlapping writes are   *)
(* not modelled, the later json.dump gives the content.                    *)
(***************************************************************************)
MonitorLines == 2

KeepLast == 50

MonitorInputs == [web |-> {W_ok, W_bad, " " \o W_admin}, db |-> {D_ok, D_drop, D_blank}]

MonitorAnswers == [web |-> {Returns(1), Returns(-1), Raises("ValueError")},
                   db |-> {Returns(0), Returns(1), Raises("ValueError")}]

\* parse_log_line(line.strip()) and parse_db_log(line.strip())
MonitorParsed == [l \in MonitorInputs.web |-> parse_log_line(strip(l))]

MonitorQuery == [l \in MonitorInputs.db |-> parse_db_log(strip(l))]

\* datetime.now(): the time moves on with every line a monitor reads
Now == monitor["web"].lines + monitor["db"].lines + 1

Others == UNCHANGED <<ids_manager, alert_file, obs, resp, log_file, collector, deployment>>

monitor_start_reads_from_top(m, model_exists) ==
    /\ monitor[m].pc = "start"
    /\ IF ~model_exists
       THEN /\ monitor' = [monitor EXCEPT ![m].pc = "returned"]
            /\ UNCHANGED ALERTS_FILE
       ELSE /\ monitor' = [monitor EXCEPT ![m].pc = "readline", ![m].pos = 0,
                                             ![m].origin = Len(log_file[m])]
            /\ ALERTS_FILE' = IF m = "web" /\ ~ALERTS_FILE.exists
                              THEN [exists |-> TRUE, valid |-> TRUE, content |-> << >>]
                              ELSE ALERTS_FILE
    /\ Others

\* monitor_logs, monitor_db_logs up to the loop: without the model file the
\* function returns; monitor_logs creates data/alerts.json when it is missing;
\* f.seek(0, os.SEEK_END) puts the offset at the end of the log file
monitor_start(m, model_exists) ==
    /\ monitor[m].pc = "start"
    /\ IF ~model_exists
       THEN /\ monitor' = [monitor EXCEPT ![m].pc = "returned"]
            /\ UNCHANGED ALERTS_FILE
       ELSE /\ monitor' = [monitor EXCEPT ![m].pc = "readline", ![m].pos = Len(log_file[m]),
                                             ![m].origin = Len(log_file[m])]
            /\ ALERTS_FILE' = IF m = "web" /\ ~ALERTS_FILE.exists
                              THEN [exists |-> TRUE, valid |-> TRUE, content |-> << >>]
                              ELSE ALERTS_FILE
    /\ Others

\* what one turn of the loop does with its line: "skip" for continue, "raise"
\* when predict raises, "alert" with the alert built
monitor_logs_turn(line, predict) ==
    LET parsed_data == IF line \in DOMAIN MonitorParsed THEN MonitorParsed[line]
                       ELSE parse_log_line(strip(line))
    IN IF parsed_data = None THEN [do |-> "skip"]
       ELSE IF predict.exc # "" THEN [do |-> "raise", exc |-> predict.exc]
       ELSE IF predict.v = -1
       THEN [do |-> "alert",
             alert |-> [timestamp |-> Now, severity |-> "CRITICAL", source_ip |-> parsed_data.ip,
                        attack_type |-> "Anomaly Detected",
                        payload |-> parsed_data.method \o " " \o parsed_data.url,
                        user_agent |-> parsed_data.user_agent]]
       ELSE [do |-> "skip"]

monitor_db_logs_turn(line, predict) ==
    LET query == IF line \in DOMAIN MonitorQuery THEN MonitorQuery[line]
                 ELSE parse_db_log(strip(line))
    IN IF query = "" \/ Len(query) < 5 THEN [do |-> "skip"]
       ELSE IF predict.exc # "" THEN [do |-> "raise", exc |-> predict.exc]
       ELSE IF predict.v = 1
       THEN [do |-> "alert",
             alert |-> [timestamp |-> Now, severity |-> "CRITICAL", source_ip |-> "Internal DB",
                        attack_type |-> "SQL Injection Detected",
                        payload |-> Truncate(query, 150), user_agent |-> "N/A"]]
       ELSE [do |-> "skip"]

\* one turn of while True with a line read: an exception of predict leaves the
\* loop and the function, an alert goes to save_alert
\* the process after a turn of its loop
after_turn(mon, turn) ==
    CASE turn.do = "skip" -> [mon EXCEPT !.lines = @ + 1]
      [] turn.do = "raise" -> [mon EXCEPT !.lines = @ + 1, !.pc = "raised", !.exc = turn.exc]
      [] turn.do = "alert" -> [mon EXCEPT !.lines = @ + 1, !.pc = "save_alert",
                                          !.alert_data = turn.alert,
                                          !.raised = Append(@, turn.alert)]

monitor_turn(m, line, predict) ==
    /\ monitor[m].pc = "readline"
    /\ \E turn \in {IF m = "web" THEN monitor_logs_turn(line, predict)
                    ELSE monitor_db_logs_turn(line, predict)} :
          monitor' = [monitor EXCEPT ![m] = after_turn(@, turn)]
    /\ UNCHANGED ALERTS_FILE
    /\ Others

\* f.readline() at offset pos of text: up to and including the next newline,
\* up to the end of the text when there is none, '' at the end
readline(text, pos) ==
    IF pos >= Len(text) THEN ""
    ELSE LET ends == {k \in (pos + 1)..Len(text) : Char(text, k) = "\n"}
         IN SubSeq(text, pos + 1, IF ends = {} THEN Len(text) ELSE Min(ends))

\* one turn of while True on the log file itself: nothing to read is
\* time.sleep(0.1) and continue, a line read moves the offset behind it
monitor_tail(m, predict) ==
    /\ monitor[m].pc = "readline"
    /\ \E line \in {readline(log_file[m], monitor[m].pos)} :
          /\ line # ""
          /\ \E turn \in {IF m = "web" THEN monitor_logs_turn(line, predict)
                          ELSE monitor_db_logs_turn(line, predict)} :
                monitor' = [monitor EXCEPT ![m] = [after_turn(@, turn) EXCEPT
                                                      !.pos = @ + Len(line),
                                                      !.seen = Append(@, line)]]
    /\ UNCHANGED ALERTS_FILE
    /\ Others

\* f.readline() fails: the log file cannot be read any more
monitor_readline_fails(m) ==
    /\ monitor[m].pc = "readline"
    /\ monitor' = [monitor EXCEPT ![m].pc = "raised", ![m].exc = "OSError"]
    /\ UNCHANGED ALERTS_FILE
    /\ Others

\* save_alert, reading: the alerts of the file, [] when the file is missing or
\* is not JSON, then alerts.append(alert_data)
save_alert_read(m) ==
    /\ monitor[m].pc = "save_alert"
    /\ monitor' = [monitor EXCEPT
           ![m].pc = "open_w",
           ![m].alerts = Append(IF ALERTS_FILE.exists /\ ALERTS_FILE.valid THEN ALERTS_FILE.content
                                ELSE << >>, monitor[m].alert_data)]
    /\ UNCHANGED ALERTS_FILE
    /\ Others

\* save_alert, open(ALERTS_FILE, 'w'): the file is emptied
save_alert_open(m) ==
    /\ monitor[m].pc = "open_w"
    /\ monitor' = [monitor EXCEPT ![m].pc = "dump"]
    /\ ALERTS_FILE' = [exists |-> TRUE, valid |-> FALSE, content |-> << >>]
    /\ Others

\* save_alert, json.dump(alerts[-50:], f): back to the loop
save_alert_dump_keeps_all(m) ==
    /\ monitor[m].pc = "dump"
    /\ monitor' = [monitor EXCEPT ![m].pc = "readline", ![m].alerts = << >>, ![m].alert_data = None]
    /\ ALERTS_FILE' = [exists |-> TRUE, valid |-> TRUE, content |-> monitor[m].alerts]
    /\ Others

save_alert_dump(m) ==
    /\ monitor[m].pc = "dump"
    /\ monitor' = [monitor EXCEPT ![m].pc = "readline", ![m].alerts = << >>, ![m].alert_data = None]
    /\ ALERTS_FILE' = [exists |-> TRUE, valid |-> TRUE,
                       content |-> SliceFrom(monitor[m].alerts, 0 - KeepLast)]
    /\ Others

MonitorStart == \E m \in Monitors : \E model_exists \in BOOLEAN : monitor_start(m, model_exists)

MonitorTurn == \E m \in Monitors : \E line \in MonitorInputs[m] : \E predict \in MonitorAnswers[m] :
                   monitor[m].lines < MonitorLines /\ monitor_turn(m, line, predict)

MonitorReadlineFails == \E m \in Monitors : monitor_readline_fails(m)

SaveAlertRead == \E m \in Monitors : save_alert_read(m)

SaveAlertOpen == \E m \in Monitors : save_alert_open(m)

SaveAlertDump == \E m \in Monitors : save_alert_dump(m)

NextMonitor ==
    \/ MonitorStart \/ MonitorTurn \/ MonitorReadlineFails
    \/ SaveAlertRead \/ SaveAlertOpen \/ SaveAlertDump

SpecMonitor == InitStore /\ [][NextMonitor]_vars

(***************************************************************************)
(* models/log_collector.py: one thread per web-server container appends    *)
(* the lines of its container to data/web_access.log, which the web        *)
(* monitor follows. open(WEB_LOG_FILE, "a"), f.write and f.flush give one  *)
(* appending write per line; writes to one file do not overlap each other, *)
(* but a reader may find the file grown by the beginning of a line before  *)
(* the write is over, and nothing in either program waits for the newline. *)
(***************************************************************************)
WebThreads == {"web-server-1", "web-server-2"}

TailEvents == 1

RECURSIVE Remove(_, _)
\* str.replace(c, '') for a character c
Remove(str, c) ==
    IF str = "" THEN ""
    ELSE (IF Char(str, 1) = c THEN "" ELSE Char(str, 1)) \o Remove(SubSeq(str, 2, Len(str)), c)

\* format_to_kagggle_style: NGINX_PATTERN is the pattern of preprocess.py; the
\* line is returned as Given(line), None when the pattern does not match
format_to_kagggle_style(raw_line) ==
    Bind(LOG_PATTERN(raw_line), LAMBDA match :
        IF match # None
        THEN Bind(Remove(strip(match.extra), "\""), LAMBDA extra : Given(
                 match.ip \o " " \o match.ident \o " " \o match.auth \o " [" \o match.timestamp
                     \o "] \"" \o match.request \o "\" " \o match.status \o " " \o match.bytes_sent
                     \o " \"" \o match.referer \o "\" \"" \o match.ua \o "\" \""
                     \o (IF extra = "" THEN "-" ELSE extra) \o "\"\n"))
        ELSE None)

\* the lines of the containers, one per thread, after decode and strip
ContainerLines == [c \in WebThreads |-> IF c = "web-server-1" THEN {W_ok, W_bad} ELSE {W_tool}]

Formatted == [raw \in {W_ok, W_bad, W_tool} |-> format_to_kagggle_style(raw)]

\* where the beginning of a line may end when a reader finds it before the rest
Splits(formatted_log) == {Len(formatted_log) - 5}

CollectorOthers == UNCHANGED <<ids_manager, alert_file, obs, resp, ALERTS_FILE, monitor, deployment>>

\* start_collector: a thread per container, each entering its stream
start_collector ==
    /\ \A c \in WebThreads : collector[c].pc = "start"
    /\ collector' = [c \in Collectors |-> IF c \in WebThreads THEN [collector[c] EXCEPT !.pc = "streaming"]
                                           ELSE collector[c]]
    /\ UNCHANGED log_file
    /\ CollectorOthers

\* another thread is in the middle of its write to the file
Writing(c) == \E d \in WebThreads \ {c} : collector[d].pc = "writing"

\* stream_container_logs, one line of the stream: a line that does not match is
\* dropped, a formatted line is appended; whole says that no reader can find
\* the file with part of the line
stream_container_logs(c, decoded_line, whole, at) ==
    /\ collector[c].pc = "streaming"
    /\ ~Writing(c)
    /\ \E formatted_log \in {Formatted[decoded_line]} :
          IF formatted_log = None
          THEN /\ collector' = [collector EXCEPT ![c].events = @ + 1]
               /\ UNCHANGED log_file
          ELSE IF whole
          THEN /\ collector' = [collector EXCEPT ![c].events = @ + 1]
               /\ log_file' = [log_file EXCEPT !.web = @ \o formatted_log.v]
          ELSE /\ collector' = [collector EXCEPT ![c].events = @ + 1, ![c].pc = "writing",
                                                  ![c].rest = SubSeq(formatted_log.v, at + 1, Len(formatted_log.v))]
               /\ log_file' = [log_file EXCEPT !.web = @ \o SubSeq(formatted_log.v, 1, at)]
    /\ CollectorOthers

\* the write is over: the rest of the line is in the file
write_over(c) ==
    /\ collector[c].pc = "writing"
    /\ collector' = [collector EXCEPT ![c].pc = "streaming", ![c].rest = ""]
    /\ log_file' = [log_file EXCEPT !.web = @ \o collector[c].rest]
    /\ CollectorOthers

WebCollectorStart == start_collector

WebCollect ==
    \E c \in WebThreads : \E decoded_line \in ContainerLines[c] : \E whole \in BOOLEAN :
        /\ collector[c].events < TailEvents
        /\ \E at \in IF Formatted[decoded_line] = None THEN {0} ELSE Splits(Formatted[decoded_line].v) :
              stream_container_logs(c, decoded_line, whole, at)

WebWriteOver == \E c \in WebThreads : write_over(c)

WebMonitorStart == monitor_start("web", TRUE)

WebMonitorTail == \E predict \in {Returns(1), Returns(-1)} : monitor_tail("web", predict)

WebSaveAlert == save_alert_read("web") \/ save_alert_open("web") \/ save_alert_dump("web")

NextWebTail ==
    \/ WebCollectorStart \/ WebCollect \/ WebWriteOver
    \/ WebMonitorStart \/ WebMonitorTail \/ WebSaveAlert

SpecWebTail == InitStore /\ [][NextWebTail]_vars

(***************************************************************************)
(* models/db_log_collector.py: the process that copies the general log of  *)
(* db-server-1 to data/db_query.log, which the db monitor follows.         *)
(***************************************************************************)
CollectorRuns == 2

\* the lines tail -f gives, before decode and strip
GeneralLog == {D_ok, D_drop \o " ", "mysql: [Warning] Using a password", D_blank}

\* what exec_run gives for SELECT @@general_log_file: the lines of the output,
\* or an exception
PathOutputs ==
    {Returns(<<"mysql: [Warning] Using a password", "/var/lib/mysql/db-server-1.log">>),
     Returns(<<"mysql: [Warning] Using a password", "">>),
     Returns(<<"ERROR 2002 (HY000): Can't connect to local MySQL server">>),
     [exc |-> "APIError", v |-> << >>]}

\* get_clean_log_path: the first line of the output that, stripped, starts with
\* "/" and has no "Warning" in it; None when there is none or exec_run raised
get_clean_log_path(output) ==
    IF output.exc # "" THEN None
    ELSE LET clean == [i \in 1..Len(output.v) |-> strip(output.v[i])]
             paths == {i \in 1..Len(output.v) :
                          /\ clean[i] # ""
                          /\ SubSeq(clean[i], 1, 1) = "/"
                          /\ ~Contains(clean[i], "Warning")}
         IN IF paths = {} THEN None
            ELSE Given(clean[CHOOSE i \in paths : \A j \in paths : i <= j])

\* stream_db_logs up to its loop: the log file is emptied; then the function
\* returns when the container is not found or get_clean_log_path gives None.
\* since starts again from what the monitor has read so far
stream_db_logs(found, output) ==
    /\ collector["db-server-1"].pc = "start"
    /\ log_file' = [log_file EXCEPT !.db = ""]
    /\ \E internal_log_path \in {get_clean_log_path(output)} :
          collector' = [collector EXCEPT
             !["db-server-1"] = IF ~found THEN [@ EXCEPT !.pc = "returned", !.since = monitor["db"].seen]
                                ELSE IF internal_log_path = None
                                THEN [@ EXCEPT !.pc = "returned", !.tries = @ + 1, !.since = monitor["db"].seen]
                                ELSE [@ EXCEPT !.pc = "tailing", !.tries = @ + 1, !.since = monitor["db"].seen]]
    /\ CollectorOthers

\* one line of exec_stream.output: empty lines and the two kinds of noise are
\* skipped, the others are appended with a newline
stream_db_line(line) ==
    /\ collector["db-server-1"].pc = "tailing"
    /\ \E decoded_line \in {strip(line)} :
          IF \/ decoded_line = ""
             \/ Contains(decoded_line, "tail: cannot open")
             \/ Contains(decoded_line, "mysql: [Warning]")
          THEN /\ collector' = [collector EXCEPT !["db-server-1"].events = @ + 1]
               /\ UNCHANGED log_file
          ELSE /\ collector' = [collector EXCEPT
                      !["db-server-1"].events = @ + 1,
                      !["db-server-1"].since = IF monitor["db"].pc = "start" THEN @
                                               ELSE Append(@, decoded_line \o "\n")]
               /\ log_file' = [log_file EXCEPT !.db = @ \o decoded_line \o "\n"]
    /\ CollectorOthers

\* the process has ended, by return or by KeyboardInterrupt, and is run again
db_collector_again ==
    /\ collector["db-server-1"].pc \in {"returned", "tailing"}
    /\ collector' = [collector EXCEPT !["db-server-1"].pc = "start"]
    /\ UNCHANGED log_file
    /\ CollectorOthers

DbCollectorStart ==
    /\ collector["db-server-1"].tries < CollectorRuns
    /\ \E found \in BOOLEAN : \E output \in PathOutputs : stream_db_logs(found, output)

DbCollect ==
    /\ collector["db-server-1"].events < CollectorRuns
    /\ \E line \in GeneralLog : stream_db_line(line)

DbCollectorAgain == db_collector_again

DbMonitorStart == monitor_start("db", TRUE)

DbMonitorTail == \E predict \in {Returns(0), Returns(1)} : monitor_tail("db", predict)

DbSaveAlert == save_alert_read("db") \/ save_alert_open("db") \/ save_alert_dump("db")

NextDbTail ==
    \/ DbCollectorStart \/ DbCollect \/ DbCollectorAgain
    \/ DbMonitorStart \/ DbMonitorTail \/ DbSaveAlert

SpecDbTail == InitStore /\ [][NextDbTail]_vars

(***************************************************************************)
(* The two paths of detection on the same lines: a monitor process and     *)
(* IDSManager behind POST /api/ids/analyze each get the line, and the      *)
(* classifier artifact they both loaded gives both the same label.         *)
(***************************************************************************)
SameInputs == [web |-> {W_ok, W_bad, W_admin}, db |-> {D_ok, D_drop}]

SameLabels == [web |-> {1, -1}, db |-> {0, 1, -1}]

\* the artifact's answers to the analyzer for a line it labels v
Labels(v) == [predict |-> Returns(v), decision_function |-> Returns(-1200),
              predict_proba |-> Unconsulted.predict_proba]

same_line(m, log_line, v) ==
    /\ monitor[m].pc = "readline"
    /\ \E turn \in {IF m = "web" THEN monitor_logs_turn(log_line, Returns(v))
                    ELSE monitor_db_logs_turn(log_line, Returns(v))} :
       \E out \in {Dispatch(ids_manager, m, log_line, Labels(v))} :
          /\ monitor' = [monitor EXCEPT ![m] = after_turn(@, turn)]
          /\ ids_manager' = out.self
          /\ alert_file' = IF out.ret # None THEN save_alerts(out.self, alert_file, TRUE) ELSE alert_file
          /\ obs' = <<Observe(m, log_line, ids_manager, out, Labels(v))>>
          /\ resp' = Response("analyze_log", m, 200, "", out.ret, << >>, 0)
    /\ UNCHANGED <<ALERTS_FILE, log_file, collector, deployment>>

SameStart == \E m \in Monitors : monitor_start(m, TRUE)

SameLine == \E m \in Monitors : \E log_line \in SameInputs[m] : \E v \in SameLabels[m] :
               /\ monitor[m].lines < MonitorLines
               /\ same_line(m, log_line, v)

SameSaveAlert == \E m \in Monitors : save_alert_read(m) \/ save_alert_open(m) \/ save_alert_dump(m)

NextSame == SameStart \/ SameLine \/ SameSaveAlert

SpecSame == InitStore /\ [][NextSame]_vars

(***************************************************************************)
(* enhanced_api.py: the handlers that start an operation in a background   *)
(* thread, and POST /api/reset. Flask serves each request in a thread of   *)
(* its own, so a handler is two steps: the read of deployment_in_progress, *)
(* and what follows it. Each of the two clients waits for the operation it *)
(* started before it asks again. deployment_status and deployment_logs are *)
(* not modelled.                                                           *)
(***************************************************************************)
Operations == {"deploy", "rollback_deployment", "harden_security", "cleanup", "test_network_connectivity"}

DeployOthers == UNCHANGED <<ids_manager, alert_file, obs, resp, ALERTS_FILE, monitor, log_file, collector>>

\* if deployment_in_progress: return 400
operation_check(r, op) ==
    /\ deployment.request[r] = "none"
    /\ \A t \in deployment.threads : t.by # r
    /\ deployment' = IF deployment.deployment_in_progress
                     THEN [deployment EXCEPT !.answer[r] = 400]
                     ELSE [deployment EXCEPT !.answer[r] = 0, !.request[r] = op]
    /\ DeployOthers

\* if cms is None: return 503; deployment_in_progress = True; thread.start();
\* return 202
operation_start(r, cms_ok) ==
    /\ deployment.request[r] # "none"
    /\ deployment' = IF ~cms_ok
                     THEN [deployment EXCEPT !.answer[r] = 503, !.request[r] = "none"]
                     ELSE [deployment EXCEPT
                              !.deployment_in_progress = TRUE,
                              !.threads = @ \cup {[by |-> r, op |-> deployment.request[r]]},
                              !.answer[r] = 202,
                              !.request[r] = "none"]
    /\ DeployOthers

\* the end of a background function, with or without an exception: finally
\* sets deployment_in_progress = False
in_background(t) ==
    /\ t \in deployment.threads
    /\ deployment' = [deployment EXCEPT !.deployment_in_progress = FALSE, !.threads = @ \ {t}]
    /\ DeployOthers

reset_deployment_state ==
    /\ deployment' = [deployment EXCEPT !.deployment_in_progress = FALSE]
    /\ DeployOthers

OperationCheck == \E r \in Requests : \E op \in Operations : operation_check(r, op)

OperationStart == \E r \in Requests : \E cms_ok \in BOOLEAN : operation_start(r, cms_ok)

InBackground == \E t \in deployment.threads : in_background(t)

ResetDeploymentState == reset_deployment_state

NextDeploy == OperationCheck \/ OperationStart \/ InBackground \/ ResetDeploymentState

SpecDeploy == Init /\ [][NextDeploy]_vars

(***************************************************************************)
(* One monitor process saving more alerts than data/alerts.json keeps. The *)
(* file is missing at first, or was left empty by a write that was         *)
(* interrupted between open(ALERTS_FILE, 'w') and json.dump.               *)
(***************************************************************************)
SaveExtra == 2

InitSave ==
    /\ ids_manager = IDSManager(Model("web_model.pkl"), Model("db_model.pkl"), Model("email_model.pkl"))
    /\ alert_file = [exists |-> FALSE, content |-> << >>]
    /\ obs = << >>
    /\ resp = Response("init_cms", "", 0, "", None, << >>, 0)
    /\ ALERTS_FILE \in {[exists |-> FALSE, valid |-> TRUE, content |-> << >>],
                        [exists |-> TRUE, valid |-> FALSE, content |-> << >>]}
    /\ monitor = [m \in Monitors |-> NotStarted]
    /\ log_file = [m \in Monitors |-> ""]
    /\ collector = [c \in Collectors |-> NotRunning]
    /\ deployment = Idle

SaveStart == monitor_start("web", TRUE)

SaveTurn ==
    /\ monitor["web"].lines < KeepLast + SaveExtra
    /\ monitor_turn("web", W_ok, Returns(-1))

SaveRead == save_alert_read("web")

SaveOpen == save_alert_open("web")

SaveDump == save_alert_dump("web")

NextSave == SaveStart \/ SaveTurn \/ SaveRead \/ SaveOpen \/ SaveDump

SpecSave == InitSave /\ [][NextSave]_vars

(***************************************************************************)
(* Properties                                                              *)
(***************************************************************************)
Up == ids_manager # None

Alerts == IF Up THEN ids_manager.alerts ELSE << >>

Observed == {obs[i] : i \in DOMAIN obs}

InTrace(o, stage) == \E i \in DOMAIN o.trace : o.trace[i] = stage

ClassifierCalled(o) ==
    InTrace(o, "predict") \/ InTrace(o, "decision_function") \/ InTrace(o, "predict_proba")

\* the line has the shape its domain's parser asks for
Parses(domain, line) == IF domain = "db" THEN Query[line] # "" ELSE Parsed[line] # None

\* a signature rule of the domain matches the line
SignatureFires(domain, line) ==
    /\ Parses(domain, line)
    /\ CASE domain = "web" -> WebSignature[Parsed[line]].manual_alert
         [] domain = "db" -> DbSignature[Query[line]].manual_alert
         [] domain = "email" -> EmailSignature[Parsed[line]].manual_alert

ModelOf(domain) ==
    CASE domain = "web" -> ids_manager.web_model
      [] domain = "db" -> ids_manager.db_model
      [] domain = "email" -> ids_manager.email_model

\* C1: the alert list holds exactly the last min(n, capacity) alerts created
\* since the last clear, in arrival order (timestamps are arrival numbers): it
\* never exceeds capacity, and after 101 appends to the empty list of a new
\* instance it holds 100 alerts, the oldest being the 2nd ever created
C1_BoundedFifo ==
    Up => LET a == ids_manager.alerts
              n == ids_manager.appended
          IN /\ Len(a) <= max_alerts
             /\ Len(a) = IF n <= max_alerts THEN n ELSE max_alerts
             /\ \A i \in 1..Len(a) : a[i].timestamp = ids_manager.clock - Len(a) + i
             /\ (n = max_alerts + 1 /\ ids_manager.clock = n)
                    => Len(a) = max_alerts /\ a[1].timestamp = 2 /\ a[1].id = 2

C1_Witness ==
    /\ Up
    /\ ids_manager.appended = max_alerts + 1
    /\ ids_manager.clock = max_alerts + 1
    /\ Len(ids_manager.alerts) = max_alerts

\* C2: every alert created gets an id greater than the id given to the alert
\* created before it, over the whole life of the instance
C2_IdsStrictlyIncreasing ==
    [][(Up /\ ids_manager'.clock > ids_manager.clock)
           => ids_manager'.last_id > ids_manager.last_id]_vars

\* C3: when a signature rule matches a line, the call that analyzes it never
\* reaches predict, decision_function or predict_proba, in any domain
C3_SignatureSuppressesClassifier ==
    \A o \in Observed : SignatureFires(o.domain, o.line) => ~ClassifierCalled(o)

C3_Witness ==
    \E o \in Observed : /\ SignatureFires(o.domain, o.line)
                        /\ InTrace(o, "signature")
                        /\ o.ret # None
                        /\ o.domain = "db"

\* C4: with the model of its domain missing, an analyze call still parses the
\* line and evaluates the signature rules, returns an alert exactly for the
\* lines a signature matches, and does not raise
C4_SignatureOnlyMode ==
    \A o \in Observed :
        (Up /\ ModelOf(o.domain) = None)
            => /\ InTrace(o, "signature") \/ ~Parses(o.domain, o.line)
               /\ SignatureFires(o.domain, o.line) <=> o.ret # None
               /\ resp.status = 200

\* C5: a web or email line that is not in the combined access-log shape yields
\* None without raising; no signature rule, feature extraction or classifier
\* call is made for it and no alert is created
C5_UnparsedLineSkipped ==
    \A o \in Observed :
        (o.domain \in {"web", "email"} /\ Parsed[o.line] = None)
            => /\ o.ret = None
               /\ o.created = 0
               /\ \A i \in DOMAIN o.trace : o.trace[i] = "parse_log_line"
               /\ resp.status = 200

C5_Witness ==
    \E o \in Observed : /\ o.domain \in {"web", "email"}
                        /\ Parsed[o.line] = None
                        /\ o.trace = <<"parse_log_line">>
                        /\ Len(Alerts) > 0

\* C6: a request with a type other than web, db or email is rejected by the
\* single-line and by the bulk entry point: no line is analyzed and the request
\* is answered with an error, never with status 200 and zero alerts
C6_UnknownTypeRejected ==
    (resp.op \in {"analyze_log", "bulk_analyze_logs"} /\ resp.log_type \notin {"web", "db", "email"})
        => obs = << >> /\ resp.status # 200 /\ resp.error # ""

\* the call classified the line positively: a signature rule matched the line
\* it parsed, or predict reported an anomaly and scoring did not raise
Positive(o) ==
    \/ InTrace(o, "signature") /\ SignatureFires(o.domain, o.line)
    \/ o.prediction = -1 /\ o.verdict # "error"

\* the list after one alert has been appended to list a
Appended(a, alert) == (IF Len(a) < max_alerts THEN a ELSE Tail(a)) \o <<alert>>

RECURSIVE AppendedAll(_, _)
AppendedAll(a, new) == IF new = << >> THEN a ELSE AppendedAll(Appended(a, Head(new)), Tail(new))

\* the alerts returned by the positive calls of a request, in call order
RECURSIVE Returned(_)
Returned(os) == IF os = << >> THEN << >>
                ELSE (IF Positive(Head(os)) THEN <<Head(os).ret>> ELSE << >>) \o Returned(Tail(os))

\* C7: an analyze call that classifies its line positively appends exactly one
\* alert and returns it, and the alert is then the newest element of the list;
\* no call creates two alerts, and a call that is not positive creates none
C7_OneAlertPerPositiveLine ==
    [][Up => /\ \A o \in {obs'[i] : i \in DOMAIN obs'} :
                   /\ o.created = IF Positive(o) THEN 1 ELSE 0
                   /\ o.ret # None <=> Positive(o)
             /\ resp'.op = "analyze_log" /\ resp'.alert # None
                   => /\ ids_manager'.alerts = Appended(ids_manager.alerts, resp'.alert)
                      /\ ids_manager'.alerts[Len(ids_manager'.alerts)] = obs'[1].ret
             /\ resp'.op \in {"analyze_log", "bulk_analyze_logs"}
                   => ids_manager'.alerts = AppendedAll(ids_manager.alerts, Returned(obs'))
             /\ resp'.op = "bulk_analyze_logs" => resp'.alerts = Returned(obs')]_vars

C7_Witness ==
    /\ resp.op = "analyze_log" /\ resp.alert # None
    /\ Len(Alerts) = 2
    /\ Alerts[2] = resp.alert
    /\ obs[1].prediction = -1

\* no signature rule matches the line and predict reported an inlier
Benign(o) == Parses(o.domain, o.line) /\ ~SignatureFires(o.domain, o.line) /\ o.prediction = 1

\* C8: analyzing a benign line returns None and leaves the instance as it was
\* (same alerts, same next id), the first time and every time after
C8_BenignLeavesStore ==
    [][/\ \A o \in {obs'[i] : i \in DOMAIN obs'} : Benign(o) => o.ret = None /\ o.created = 0
       /\ (resp'.op = "analyze_log" /\ resp'.status = 200 /\ Benign(obs'[1]))
              => resp'.alert = None /\ ids_manager' = ids_manager]_vars

C8_Witness ==
    /\ resp.op = "analyze_log" /\ resp.again
    /\ Benign(obs[1])
    /\ resp.alert = None
    /\ Len(Alerts) > 0

\* the line contains DROP TABLE or TRUNCATE, in any letter case
DropOrTruncate == [l \in AllLines |-> Contains(upper(l), "DROP TABLE") \/ Contains(upper(l), "TRUNCATE")]

\* C9: a db line containing DROP TABLE or TRUNCATE yields an alert of severity
\* CRITICAL and confidence at least 0.9, and every alert raised by a db
\* signature is CRITICAL
C9_DbDropTruncateCritical ==
    \A o \in Observed :
        o.domain = "db"
            => /\ DropOrTruncate[o.line]
                   => o.ret # None /\ o.ret.severity = "CRITICAL" /\ o.ret.confidence >= 9000
               /\ o.verdict = "signature" => o.ret.severity = "CRITICAL"

\* the line is well formed and its URL holds an admin or command-access token
AdminToken == [l \in AllLines |-> IF Parsed[l] = None THEN FALSE
                                  ELSE ContainsAny(lower(Parsed[l].url), WebAdminPatterns)]

\* C10: a well-formed web line whose URL holds an admin or command-access token
\* yields an alert of severity HIGH, raised by the signature rules without any
\* classifier call
C10_WebAdminHigh ==
    \A o \in Observed :
        (o.domain = "web" /\ AdminToken[o.line])
            => /\ o.ret # None
               /\ o.ret.severity = "HIGH"
               /\ InTrace(o, "signature")
               /\ ~ClassifierCalled(o)

\* the categories of each domain in the order the rules are listed, with the
\* attack_type and severity each one gives, and whether it matches the line
WebCategories(parsed) ==
    <<[hit |-> ContainsAny(lower(parsed.url), WebAdminPatterns),
       attack_type |-> "Admin/command access detected", severity |-> "HIGH"],
      [hit |-> ContainsAny(lower(parsed.url), WebTraversalPatterns),
       attack_type |-> "Path traversal attempt", severity |-> "HIGH"],
      [hit |-> ContainsAny(lower(parsed.url), WebScriptPatterns),
       attack_type |-> "Script injection attempt", severity |-> "HIGH"],
      [hit |-> ContainsAny(lower(parsed.url), WebSqlPatterns),
       attack_type |-> "SQL injection pattern detected", severity |-> "HIGH"],
      [hit |-> ContainsAny(lower(parsed.user_agent), WebToolAgents),
       attack_type |-> "Suspicious tool: " \o parsed.user_agent, severity |-> "HIGH"]>>

EmailCategories(parsed) ==
    <<[hit |-> ContainsAny(lower(parsed.url), phishing_patterns),
       attack_type |-> "Phishing email pattern detected", severity |-> "HIGH"],
      [hit |-> ContainsAny(lower(parsed.url), spam_patterns),
       attack_type |-> "Spam/Malware email pattern detected", severity |-> "MEDIUM"],
      [hit |-> ContainsAny(lower(parsed.url), dangerous_patterns),
       attack_type |-> "Dangerous file/payload pattern detected", severity |-> "CRITICAL"],
      [hit |-> ContainsAny(lower(parsed.user_agent), suspicious_agents),
       attack_type |-> "Suspicious email client: " \o parsed.user_agent, severity |-> "HIGH"]>>

DbCategories(query) ==
    <<[hit |-> ContainsAny(lower(query), sql_injection_patterns),
       attack_type |-> "SQL Injection detected", severity |-> "CRITICAL"],
      [hit |-> /\ Contains(lower(query), "; ")
               /\ \E i \in DOMAIN stacked_keywords : Contains(lower(query), stacked_keywords[i]),
       attack_type |-> "Stacked query with "
                       \o upper(stacked_keywords[Min({i \in DOMAIN stacked_keywords :
                                                         Contains(lower(query), stacked_keywords[i])}
                                                     \cup {Len(stacked_keywords)})])
                       \o " detected",
       severity |-> "CRITICAL"],
      [hit |-> Contains(lower(query), "drop") \/ Contains(lower(query), "truncate"),
       attack_type |-> "Dangerous operation detected (DROP/TRUNCATE)", severity |-> "CRITICAL"]>>

\* the categories of the line's domain, tabulated once for the lines that parse
Categories ==
    [domain \in {"web", "db", "email"} |->
        [l \in {l \in AllLines : IF domain = "db" THEN Query[l] # "" ELSE Parsed[l] # None} |->
            CASE domain = "web" -> WebCategories(Parsed[l])
              [] domain = "email" -> EmailCategories(Parsed[l])
              [] domain = "db" -> DbCategories(Query[l])]]

Hits(cats) == {k \in DOMAIN cats : cats[k].hit}

\* C11: the alert a signature raises carries the attack_type and severity of
\* the earliest category, in the order of its domain, that matches the line
C11_FirstCategoryWins ==
    \A o \in Observed :
        o.verdict = "signature"
            => LET cats == Categories[o.domain][o.line]
               IN /\ Hits(cats) # {}
                  /\ o.ret.attack_type = cats[Min(Hits(cats))].attack_type
                  /\ o.ret.severity = cats[Min(Hits(cats))].severity

\* C12: an email alert raised by a signature has the attack_type and the
\* severity of one and the same category, a category that matches the line
\* (the only one when exactly one matches), and the severities of the categories
\* are phishing HIGH, spam MEDIUM, dangerous payload CRITICAL, automation agent HIGH
C12_EmailSeverityOfCategory ==
    \A o \in Observed :
        (o.domain = "email" /\ o.verdict = "signature")
            => LET cats == Categories["email"][o.line]
               IN \E k \in Hits(cats) :
                      /\ o.ret.attack_type = cats[k].attack_type
                      /\ o.ret.severity = <<"HIGH", "MEDIUM", "CRITICAL", "HIGH">>[k]

C12_Witness ==
    \E o \in Observed :
        /\ o.domain = "email" /\ o.verdict = "signature"
        /\ Hits(Categories["email"][o.line]) = {3}
        /\ o.ret.severity = "CRITICAL"
        /\ o.ret.attack_type = "Dangerous file/payload pattern detected"

\* every alert in the list, in the snapshot or in the last answer
Known == {Alerts[i] : i \in DOMAIN Alerts}
             \cup {alert_file.content[i] : i \in DOMAIN alert_file.content}
             \cup {resp.alerts[i] : i \in DOMAIN resp.alerts}
             \cup ({resp.alert} \ {None})

\* C13: every alert returned or stored has a confidence between 0 and 1
\* (0 and 10000 in units of 1/10000)
C13_ConfidenceInUnitInterval ==
    \A a \in Known : 0 <= a.confidence /\ a.confidence <= 10000

\* C14: a step that appends an alert leaves the snapshot equal to the list in
\* memory, same alerts in the same order
C14_SnapshotFollowsAppend ==
    [][(Up /\ ids_manager'.clock > ids_manager.clock)
           => alert_file'.exists /\ alert_file'.content = ids_manager'.alerts]_vars

\* a step in which POST /api/ids/alerts/clear answered 200
Cleared == resp'.op = "clear_alerts" /\ resp'.status = 200

\* what memory shows once clear has returned: no alert, an empty listing, total
\* 0 and no last alert
EmptyInMemory(self) ==
    /\ Len(self.alerts) = 0
    /\ get_alerts(self, None, None, 50) = << >>
    /\ get_statistics(self).total_alerts = 0
    /\ get_statistics(self).last_alert = None

Listed == resp'.op = "get_alerts" /\ resp'.status = 200

\* the stored alerts that pass the filters that were given, oldest first
Matching(alerts, alert_type, severity) ==
    SelectSeq(alerts, LAMBDA a : /\ (Truthy(alert_type) => a.alert_type = alert_type.v)
                                 /\ (Truthy(severity) => a.severity = severity.v))

\* the n last elements of seq, all of it when it has fewer
Newest(seq, n) == IF n >= Len(seq) THEN seq ELSE SubSeq(seq, Len(seq) - n + 1, Len(seq))

\* C16: a listing with limit >= 0 answers the limit most recent alerts that
\* match every given filter, never more than limit of them, and leaves the
\* store as it was
C16_ListingWithinLimit ==
    [][(Listed /\ resp'.limit >= 0)
          => /\ UNCHANGED <<ids_manager, alert_file>>
             /\ Len(resp'.alerts) <= resp'.limit
             /\ resp'.alerts = Newest(Matching(ids_manager.alerts, resp'.alert_type, resp'.severity),
                                      resp'.limit)]_vars

RECURSIVE SumOver(_, _)
\* the sum of the values of counts over the keys in keys
SumOver(counts, keys) ==
    IF keys = {} THEN 0
    ELSE LET k == CHOOSE x \in keys : TRUE IN counts[k] + SumOver(counts, keys \ {k})

\* the statistics agree with the alerts: total is their number, the counts by
\* field are those of the alerts and add up to total, last_alert is the alert
\* appended last among them, None when there is none
Agrees(stats, alerts) ==
    /\ stats.total_alerts = Len(alerts)
    /\ SumOver(stats.alert_types, DOMAIN stats.alert_types) = stats.total_alerts
    /\ SumOver(stats.severity_distribution, DOMAIN stats.severity_distribution) = stats.total_alerts
    /\ \A i \in DOMAIN alerts :
          /\ alerts[i].alert_type \in DOMAIN stats.alert_types
          /\ alerts[i].severity \in DOMAIN stats.severity_distribution
    /\ \A t \in DOMAIN stats.alert_types :
          stats.alert_types[t] = Len(SelectSeq(alerts, LAMBDA a : a.alert_type = t))
    /\ \A v \in DOMAIN stats.severity_distribution :
          stats.severity_distribution[v] = Len(SelectSeq(alerts, LAMBDA a : a.severity = v))
    /\ (stats.last_alert = None) <=> (alerts = << >>)
    /\ alerts # << >> =>
          /\ \E i \in DOMAIN alerts : alerts[i] = stats.last_alert
          /\ \A i \in DOMAIN alerts : alerts[i].timestamp <= stats.last_alert.timestamp

\* C17: in every state the statistics computed from the store agree with it,
\* and so do the statistics GET /api/ids/status has just answered
C17_StatisticsAgree ==
    Up => /\ Agrees(get_statistics(ids_manager), ids_manager.alerts)
          /\ (resp.op = "get_ids_status" /\ resp.status = 200)
                 => Agrees(resp.statistics, ids_manager.alerts)

\* the status was answered on a store of two alerts of different types
C17_Witness ==
    /\ Up /\ resp.op = "get_ids_status" /\ resp.status = 200
    /\ Len(ids_manager.alerts) = 2
    /\ ids_manager.alerts[1].alert_type # ids_manager.alerts[2].alert_type
    /\ resp.statistics.total_alerts = 2

\* a call of the classifier raised during the analyze call o: predict or
\* decision_function raised and ended the analysis (verdict error), or
\* decision_function raised and predict_proba was called in its place
ClassifierRaised(o) ==
    \/ o.verdict = "error"
    \/ \E i \in DOMAIN o.trace : o.trace[i] = "predict_proba"

\* C18: an analyze call in which a call of the classifier raised returns None
\* and stores no alert, and the request is answered normally
C18_RaisingClassifierNoAlert ==
    \A o \in Observed : ClassifierRaised(o) => /\ o.ret = None
                                               /\ o.created = 0
                                               /\ resp.status = 200

\* C19: the loop of a started monitor is ended by nothing but a failure to
\* read its log file
C19_MonitorLoopSurvives ==
    \A m \in Monitors : monitor[m].pc = "raised" => monitor[m].exc = "OSError"

\* no save_alert is under way in any monitor
Quiet == \A m \in Monitors : monitor[m].pc \notin {"save_alert", "open_w", "dump"}

\* C20: a monitor that reads the alerts file finds it whole, and once every
\* save_alert has returned every alert raised by a monitor is in the file
C20_NoAlertLost ==
    /\ \A m \in Monitors : monitor[m].pc = "save_alert" => ALERTS_FILE.valid
    /\ Quiet => \A m \in Monitors : \A i \in DOMAIN monitor[m].raised :
                   \E j \in DOMAIN ALERTS_FILE.content : ALERTS_FILE.content[j] = monitor[m].raised[i]

C23_ConfidenceFallbackChain ==
    \A o \in Observed :
        (o.prediction = -1 /\ InTrace(o, "decision_function"))
            => /\ o.ret # None
               /\ o.ret.confidence \in {1200, 8000, 5000}
               /\ (o.ret.confidence = 1200) <=> ~InTrace(o, "predict_proba")

\* C30: with one monitor saving, whenever save_alert has returned the file
\* is whole and holds the alerts handed to save_alert so far, the 50 newest of
\* them when there are more, in the order they came; a file that was unreadable
\* at first makes no difference
C30_FileKeepsNewestFifty ==
    (monitor["web"].pc = "readline" /\ monitor["web"].raised # << >>)
        => /\ ALERTS_FILE.exists /\ ALERTS_FILE.valid
           /\ Len(ALERTS_FILE.content) <= 50
           /\ ALERTS_FILE.content = Newest(monitor["web"].raised, 50)

\* more than 50 alerts were saved and the file holds 50
C30_Witness ==
    /\ monitor["web"].pc = "readline"
    /\ Len(monitor["web"].raised) > 50
    /\ Len(ALERTS_FILE.content) = 50

RECURSIVE FileLines(_)
\* the lines of a text, each with its newline; the last one is what follows the
\* last newline, when it is not empty
FileLines(text) ==
    IF text = "" THEN << >>
    ELSE LET line == readline(text, 0)
         IN <<line>> \o FileLines(SubSeq(text, Len(line) + 1, Len(text)))

\* the lines the collector threads write
CanonicalLines == {Formatted[raw].v : raw \in {r \in DOMAIN Formatted : Formatted[r] # None}}

\* C21: when no write is under way the web log is made of whole lines, each
\* written by one collector thread, and what the monitor has read as a line is
\* always one of those whole lines
C21_WholeLinesOnly ==
    /\ (\A c \in WebThreads : collector[c].pc # "writing")
           => \A i \in DOMAIN FileLines(log_file.web) : FileLines(log_file.web)[i] \in CanonicalLines
    /\ \A i \in DOMAIN monitor["web"].seen : monitor["web"].seen[i] \in CanonicalLines

RECURSIVE Concat(_)
\* the strings of a sequence put end to end
Concat(strs) == IF strs = << >> THEN "" ELSE Head(strs) \o Concat(Tail(strs))

\* C24: a monitor reads nothing that was in its log file when it entered its
\* loop: its offset is never before the end the file had then, what it has read
\* is as long as the way its offset has gone since, and for the web monitor it
\* is the text of the file from that end to the offset
C24_NothingBeforeStart ==
    /\ \A m \in Monitors : /\ monitor[m].origin <= monitor[m].pos
                           /\ Len(Concat(monitor[m].seen)) = monitor[m].pos - monitor[m].origin
                           /\ Len(monitor[m].raised) <= Len(monitor[m].seen)
    /\ Concat(monitor["web"].seen)
           = SubSeq(log_file.web, monitor["web"].origin + 1, monitor["web"].pos)

\* the web log had a line when the monitor entered its loop, and the monitor
\* has read a line since
C24_Witness ==
    /\ monitor["web"].origin > 0
    /\ monitor["web"].seen # << >>
    /\ readline(log_file.web, 0) \in CanonicalLines

\* C25: what the web monitor has passed to detection is, one for one and in
\* the order of the file, the lines of the text between the offset it started
\* from and its offset now
C25_EachLineOnceInOrder ==
    monitor["web"].seen
        = FileLines(SubSeq(log_file.web, monitor["web"].origin + 1, monitor["web"].pos))

\* C27: the db collector does not end on one failed resolution of the log
\* path: it has not returned after a single call of get_clean_log_path
C27_ResolutionRetried ==
    ~(collector["db-server-1"].pc = "returned" /\ collector["db-server-1"].tries = 1)

\* C28: when the db monitor is in its loop and finds nothing more to read, it
\* has read every line the collector has appended since the later of the
\* monitor entering its loop and the collector last clearing the file
C28_AppendedLinesRead ==
    (monitor["db"].pc = "readline" /\ readline(log_file.db, monitor["db"].pos) = "")
        => monitor["db"].seen = collector["db-server-1"].since

\* the severity and the attack type of the alerts of a sequence, in order
Kinds(alerts) == [i \in DOMAIN alerts |-> <<alerts[i].severity, alerts[i].attack_type>>]

\* C26: on the same lines with the same labels, each monitor has raised an
\* alert exactly where the analyzer returned one for its domain, with the same
\* severity and the same attack type
C26_SamePipeline ==
    /\ Kinds(monitor["web"].raised)
          = Kinds(SelectSeq(ids_manager.alerts, LAMBDA a : a.alert_type = "WEB_ANOMALY"))
    /\ Kinds(monitor["db"].raised)
          = Kinds(SelectSeq(ids_manager.alerts, LAMBDA a : a.alert_type = "DB_ANOMALY"))

\* C29: at most one background operation runs at any time
C29_OneOperationAtATime == Cardinality(deployment.threads) <= 1

====
